---- MODULE Spec2Model ----
(***************************************************************************)
(* Model of the OpenBIMRAG backend (backend/app.py, backend/ifc_parser.py):*)
(* the upload handler, the per-file asynchronous parsing worker, the       *)
(* status endpoint and the three-tier DataFrame cache used by the data,    *)
(* chart and graph endpoints.                                              *)
(***************************************************************************)
EXTENDS Integers, Sequences, FiniteSets, TLC

(* ---------------------------- bounds ----------------------------------- *)
MaxUploads == 2
MaxCallers == 2
MaxCalls == 3
\* the longest list of file ids of a request
MaxBatch == 6

Uploads == 1..MaxUploads
Callers == 1..MaxCallers
\* the futures of a request, in the order of their submission
Slots == 1..MaxBatch

(* ---------------------------- values ----------------------------------- *)
None == "None"
\* a file id no upload was registered under
UnknownId == MaxUploads + 1
NoFile == [canOpen |-> FALSE, header |-> "", elements |-> <<>>, present |-> FALSE]

\* a pandas DataFrame reference: Python None, or a table of rows
NoDF == [isNone |-> TRUE, rows |-> <<>>]
DF(rows) == [isNone |-> FALSE, rows |-> rows]
EmptyDF == DF(<<>>)
IsEmpty(df) == df.rows = <<>>

Range(f) == {f[x] : x \in DOMAIN f}

RECURSIVE Flatten(_)
Flatten(ss) == IF ss = <<>> THEN <<>> ELSE Head(ss) \o Flatten(Tail(ss))

(* ------------------- ifc_parser.extract_properties_from_ifc ------------ *)
\* prop.NominalValue: depth 0 = None, 1 = wrappedValue is a primitive,
\* 2 = wrappedValue is itself a typed value holding the primitive.
PropValue(prop) ==
  IF prop.hasNominal /\ prop.nominal.depth > 0 THEN prop.nominal.prim ELSE None

PropRow(inst, pdef, prop) ==
  [IFC_Entity |-> inst.type, IFC_Name |-> inst.name, IFC_GlobalId |-> inst.gid,
   PropertySet |-> pdef.name, PropertyName |-> prop.name,
   PropertyValue |-> PropValue(prop)]

\* mutant: only the first property of a property set gives a row
RelRowsFirstProperty(inst, rel) ==
  IF rel.kind = "IfcRelDefinesByProperties" /\ rel.def.kind = "IfcPropertySet"
       /\ rel.def.props # <<>>
  THEN <<PropRow(inst, rel.def, rel.def.props[1])>>
  ELSE <<>>

RelRows(inst, rel) ==
  IF rel.kind = "IfcRelDefinesByProperties" /\ rel.def.kind = "IfcPropertySet"
  THEN [i \in 1..Len(rel.def.props) |-> PropRow(inst, rel.def, rel.def.props[i])]
  ELSE <<>>

InstRows(inst) ==
  Flatten([j \in 1..Len(inst.rels) |-> RelRows(inst, inst.rels[j])])

\* rel.RelatingPropertyDefinition is None: prop_definition.is_a raises
RelRaises(rel) == rel.kind = "IfcRelDefinesByProperties" /\ rel.def.kind = None

WalkRaises(m) ==
  \E i \in 1..Len(m.elements) : \E j \in 1..Len(m.elements[i].rels) :
     RelRaises(m.elements[i].rels[j])

AttributeErrorMsg == "'NoneType' object has no attribute 'is_a'"

AddFileName(rows, name) ==
  [i \in 1..Len(rows) |->
     [FileName |-> name, IFC_Entity |-> rows[i].IFC_Entity,
      IFC_Name |-> rows[i].IFC_Name, IFC_GlobalId |-> rows[i].IFC_GlobalId,
      PropertySet |-> rows[i].PropertySet, PropertyName |-> rows[i].PropertyName,
      PropertyValue |-> rows[i].PropertyValue]]

\* outcome "ok" with a DataFrame, or "raise" with the exception text
extract_properties_from_ifc(m) ==
  IF ~m.canOpen THEN [outcome |-> "ok", df |-> EmptyDF, msg |-> None]
  ELSE IF WalkRaises(m) THEN [outcome |-> "raise", df |-> NoDF, msg |-> AttributeErrorMsg]
  ELSE [outcome |-> "ok",
        df |-> DF(AddFileName(Flatten([i \in 1..Len(m.elements) |-> InstRows(m.elements[i])]),
                              IF m.header = None THEN "Unknown" ELSE m.header)),
        msg |-> None]

\* ifc_parser.extract_ifc_metadata: the header file name, None when the open fails
extract_ifc_metadata(m) ==
  IF ~m.canOpen THEN None ELSE IF m.header = None THEN "Unknown" ELSE m.header

(* ---------------------------- sample model files ----------------------- *)
Prop(n, d, v) == [name |-> n, hasNominal |-> TRUE, nominal |-> [depth |-> d, prim |-> v]]
Pset(n, props) == [kind |-> "IfcPropertySet", name |-> n, props |-> props]
RelProps(d) == [kind |-> "IfcRelDefinesByProperties", def |-> d]
NoDef == [kind |-> None, name |-> None, props |-> <<>>]
Elem(t, n, g, rels) == [type |-> t, name |-> n, gid |-> g, rels |-> rels]
File(h, es) == [canOpen |-> TRUE, header |-> h, elements |-> es, present |-> TRUE]

\* 3 property rows across 2 elements
FileA == File("A", << Elem("IfcWall", "W1", "g1",
                           <<RelProps(Pset("Pset_WallCommon",
                                <<Prop("IsExternal", 1, "True"), Prop("FireRating", 2, "R60")>>))>>),
                      Elem("IfcDoor", None, "g2",
                           <<RelProps(Pset("Pset_DoorCommon", <<Prop("Width", 0, None)>>))>>) >>)
\* 1 property row
FileB == File("B", << Elem("IfcSlab", "S1", "g3",
                           <<RelProps(Pset("Pset_SlabCommon", <<Prop("LoadBearing", 1, "False")>>))>>) >>)
\* elements without property sets: zero rows
FileEmpty == File("E", << Elem("IfcWall", "W2", "g4", <<>>) >>)
\* a relation without property definition: the walk raises
FileRaise == File("R", << Elem("IfcWall", "W3", "g5", <<RelProps(NoDef)>>) >>)
\* not a readable model
FileBad == [canOpen |-> FALSE, header |-> "", elements |-> <<>>, present |-> TRUE]

ModelFiles == {FileA, FileB, FileEmpty, FileRaise, FileBad}

\* an element whose relations are a type relation and a property relation to
\* a quantity set: no property set, zero rows
RelType == [kind |-> "IfcRelDefinesByType", def |-> NoDef]
Quantity == [kind |-> "IfcElementQuantity", name |-> "Qto_WallBaseQuantities", props |-> <<>>]
ElemOther == Elem("IfcWall", "W4", "g6", <<RelType, RelProps(Quantity)>>)
\* an element with two property sets, of one property and of none
ElemTwoSets == Elem("IfcWindow", "N1", "g7",
                    <<RelProps(Pset("Pset_WindowCommon", <<Prop("IsExternal", 1, "True")>>)),
                      RelType,
                      RelProps(Pset("Pset_Empty", <<>>)),
                      RelProps(Pset("Pset_Custom", <<Prop("Tag", 2, "T1")>>))>>)

\* the models the extractor is run on: unreadable, or at most MaxElems
\* elements of the pool, with or without a header file name
MaxElems == 2
ElemPool == {FileA.elements[1], FileA.elements[2], FileEmpty.elements[1],
             FileRaise.elements[1], ElemOther, ElemTwoSets}
WalkModels ==
  {File(h, es) : h \in {"A", None}, es \in UNION {[1..n -> ElemPool] : n \in 0..MaxElems}}
    \cup {FileBad}
FileNames == {"a.ifc", "b.ifc"}

(* ---------------------------- state ------------------------------------ *)
VARIABLES
  disk,                    \* UPLOAD_FOLDER: file name -> stored model file
  cache_files,             \* CACHE_FOLDER: existing file name -> table
  parsing_status,          \* app.parsing_status
  uploaded_files_metadata, \* app.uploaded_files_metadata
  upc, uname,              \* upload handler: position, secure file name
  wpc, wres, wexc,         \* worker thread: position, parser result, exception
  statusResp,              \* last response of the status endpoint
  cpc, call,               \* cache resolution call: position, locals
  ncalls,                  \* number of requests handled
  clog,                    \* history: the tiers a call tried and what each found
  last,                    \* history: tables returned per id since its file last changed
  pairs,                   \* history: tables of successive calls without a file change
  computed,                \* history: the table the extractor last computed per id
  batch,                   \* a request of extract_data or generate_chart: its locals
  graph,                   \* a run of graph_builder.build_graph_from_ifc: its locals
  graphResp,               \* per request thread, the response of generate_graph
  walk                     \* a run of ifc_parser.extract_properties_from_ifc: its locals

vars == <<disk, cache_files, parsing_status, uploaded_files_metadata, upc, uname,
          wpc, wres, wexc, statusResp, cpc, call, ncalls, clog, last, pairs,
          computed, batch, graph, graphResp, walk>>

taskVars == <<parsing_status, wpc, wres, wexc>>
uploadVars == <<upc, uname>>
callVars == <<cpc, call, ncalls, clog, pairs>>

\* uuid.uuid4(): a fresh identifier per accepted upload
NewId(u) == u

\* str(uuid4()): the text of an identifier, groups of digits joined by hyphens
Digits == <<"1", "2", "3", "4", "5", "6", "7", "8", "9">>
IdText(id) == <<Digits[id], "-", "4", Digits[id], "-", Digits[id]>>
\* str.replace on a text
Replace(text, old, new) == [x \in DOMAIN text |-> IF text[x] = old THEN new ELSE text[x]]

\* the names of the exports (ifc_parser.py lines 152-158) and of the
\* persisted table (app.py line 121) of a file id
CsvName(id) == IdText(id) \o <<".csv">>
JsonName(id) == IdText(id) \o <<".json">>
\* mutant: the persisted table of every file is written to one name
PklNameShared(id) == <<"_df.pkl">>
PklName(id) == Replace(IdText(id), "-", "_") \o <<"_df.pkl">>
\* os.path.relpath(path, backend dir)
RelPath(name) == <<"cache">> \o name

Exists(name) == name \in DOMAIN cache_files
WriteFile(files, name, df) == [n \in DOMAIN files \cup {name} |-> IF n = name THEN df ELSE files[n]]
RemoveFile(files, name) == [n \in DOMAIN files \ {name} |-> files[n]]

NoCall == [id |-> UnknownId, pool |-> FALSE, cached |-> None, df |-> NoDF,
           prev |-> {}, tainted |-> FALSE]

\* no request of extract_data or generate_chart is being handled
\* (pos, seen and early are history: the list position each future was
\* submitted for, the status seen at each position, whether some future ended
\* before one submitted earlier)
NoResponse == [code |-> 0, reports |-> FALSE, count |-> 0, total |-> 0, data |-> <<>>]
NoBatch == [pc |-> "none", kind |-> "extract", ids |-> <<>>, i |-> 1, nf |-> 0,
            res |-> <<>>, j |-> 1, frames |-> <<>>, count |-> 0, resp |-> NoResponse,
            pos |-> <<>>, seen |-> <<>>, early |-> FALSE]

\* the pair build_graph_from_ifc returns: the graph (isNone when it is None)
\* and the duration, which is either measured or the literal 0.0
NoReturn == [isNone |-> TRUE, nodes |-> <<>>, edges |-> <<>>, measured |-> FALSE]

\* no extraction is running
NoWalk == [pc |-> "none", m |-> NoFile, name |-> "Unknown", i |-> 1, rows |-> <<>>,
           ret |-> [outcome |-> "none", df |-> NoDF, msg |-> None]]

\* no request of generate_graph was made on the thread
NoGraphResp == [pc |-> "none", id |-> UnknownId, eligible |-> FALSE, rows |-> 0,
                code |-> 0, nodes |-> {}, graph_path |-> <<>>]

\* no graph is being built
NoGraph == [pc |-> "none", products |-> <<>>, cands |-> <<>>, i |-> 1, r |-> 1,
            nodes |-> <<>>, edges |-> <<>>, count |-> 0, opened |-> FALSE,
            ret |-> NoReturn]

Init ==
  /\ disk = [n \in FileNames |-> NoFile]
  /\ cache_files = <<>>
  /\ parsing_status = <<>>
  /\ uploaded_files_metadata = <<>>
  /\ upc = [u \in Uploads |-> "new"]
  /\ uname = [u \in Uploads |-> None]
  /\ wpc = [u \in Uploads |-> "none"]
  /\ wres = [u \in Uploads |-> <<>>]
  /\ wexc = [u \in Uploads |-> None]
  /\ statusResp = [id |-> UnknownId, code |-> 0, body |-> <<>>]
  /\ cpc = [c \in Callers |-> "idle"]
  /\ call = [c \in Callers |-> NoCall]
  /\ ncalls = 0
  /\ clog = [c \in Callers |-> <<>>]
  /\ last = [u \in Uploads |-> {}]
  /\ pairs = {}
  /\ computed = [u \in Uploads |-> NoDF]
  /\ batch = NoBatch
  /\ graph = NoGraph
  /\ graphResp = [c \in DOMAIN cpc |-> NoGraphResp]
  /\ walk = NoWalk

(* ------------- ifc_parser.extract_properties_from_ifc, step by step ---- *)
\* every variable but walk
restVars == <<disk, cache_files, parsing_status, uploaded_files_metadata, upc, uname,
              wpc, wres, wexc, statusResp, cpc, call, ncalls, clog, last, pairs,
              computed, batch, graph, graphResp>>

\* lines 61-75: open the file; an empty DataFrame when it cannot be opened,
\* else the header name and the list of the elements
ExtractOpen(m) ==
  /\ walk.pc = "none"
  /\ walk' = IF ~m.canOpen
             THEN [NoWalk EXCEPT !.pc = "done", !.m = m,
                                 !.ret = [outcome |-> "ok", df |-> EmptyDF, msg |-> None]]
             ELSE [NoWalk EXCEPT !.pc = "walk", !.m = m,
                                 !.name = IF m.header = None THEN "Unknown" ELSE m.header]
  /\ UNCHANGED restVars

\* lines 77-109: one round of the loop over the elements; the exception of
\* line 86 leaves the function
ExtractInst ==
  /\ walk.pc = "walk"
  /\ walk.i <= Len(walk.m.elements)
  /\ LET inst == walk.m.elements[walk.i] IN
       walk' = IF \E j \in 1..Len(inst.rels) : RelRaises(inst.rels[j])
               THEN [walk EXCEPT !.pc = "done",
                       !.ret = [outcome |-> "raise", df |-> NoDF, msg |-> AttributeErrorMsg]]
               ELSE [walk EXCEPT !.i = @ + 1, !.rows = @ \o InstRows(inst)]
  /\ UNCHANGED restVars

\* lines 111-122: the DataFrame of the rows, with the FileName column
ExtractReturn ==
  /\ walk.pc = "walk"
  /\ walk.i > Len(walk.m.elements)
  /\ walk' = [walk EXCEPT !.pc = "done",
                !.ret = [outcome |-> "ok", df |-> DF(AddFileName(walk.rows, walk.name)),
                         msg |-> None]]
  /\ UNCHANGED restVars

(* ---------------------------- app.upload_ifc_files --------------------- *)
\* saving m under name replaces the stored model file of the registered id v
Replaces(v, name, m) ==
  /\ v \in DOMAIN uploaded_files_metadata
  /\ uploaded_files_metadata[v].saved_path = name
  /\ disk[name] # m

\* lines 168-185: save the file under its secure name, read the metadata
SubmitSave(u, name, m) ==
  /\ upc[u] = "new"
  /\ disk' = [disk EXCEPT ![name] = m]
  /\ uname' = [uname EXCEPT ![u] = name]
  /\ upc' = [upc EXCEPT ![u] =
               IF extract_ifc_metadata(m) \notin {None, ""} THEN "reg_task" ELSE "rejected"]
  /\ last' = [v \in Uploads |-> IF Replaces(v, name, m) THEN {} ELSE last[v]]
  /\ call' = [c \in Callers |->
               IF call[c].id # UnknownId /\ Replaces(call[c].id, name, m)
               THEN [call[c] EXCEPT !.tainted = TRUE] ELSE call[c]]
  /\ UNCHANGED <<cache_files, uploaded_files_metadata, taskVars, statusResp, computed, graph, walk,
                 cpc, ncalls, clog, pairs, batch, graphResp>>

\* mutant: the task is registered in the state the upload response reports
NewTaskProcessing(name) ==
  [status |-> "processing", original_filename |-> name, saved_path |-> name,
   result |-> <<>>, error |-> None]

NewTask(name) ==
  [status |-> "pending", original_filename |-> name, saved_path |-> name,
   result |-> <<>>, error |-> None]

\* lines 186-197
SubmitRegisterTask(u) ==
  /\ upc[u] = "reg_task"
  /\ parsing_status' = [i \in DOMAIN parsing_status \cup {NewId(u)} |->
                          IF i = NewId(u) THEN NewTask(uname[u]) ELSE parsing_status[i]]
  /\ upc' = [upc EXCEPT ![u] = "reg_meta"]
  /\ UNCHANGED <<disk, cache_files, uploaded_files_metadata, uname, wpc, wres, wexc,
                 statusResp, computed, graph, walk, callVars, last, batch, graphResp>>

NewFileInfo(name) ==
  [original_filename |-> name, saved_path |-> name,
   processed_data_df |-> NoDF, cached_df_path |-> None]

\* lines 201-209
SubmitRegisterMeta(u) ==
  /\ upc[u] = "reg_meta"
  /\ uploaded_files_metadata' =
       [i \in DOMAIN uploaded_files_metadata \cup {NewId(u)} |->
          IF i = NewId(u) THEN NewFileInfo(uname[u]) ELSE uploaded_files_metadata[i]]
  /\ upc' = [upc EXCEPT ![u] = "start_thread"]
  /\ UNCHANGED <<disk, cache_files, uname, taskVars, statusResp, computed, graph, walk, callVars, last, batch, graphResp>>

\* lines 213-214
SubmitStartThread(u) ==
  /\ upc[u] = "start_thread"
  /\ wpc' = [wpc EXCEPT ![NewId(u)] = "start"]
  /\ upc' = [upc EXCEPT ![u] = "respond"]
  /\ UNCHANGED <<disk, cache_files, parsing_status, uploaded_files_metadata, uname,
                 wres, wexc, statusResp, computed, graph, walk, callVars, last, batch, graphResp>>

\* lines 217-252: the response carrying the id
SubmitRespond(u) ==
  /\ upc[u] = "respond"
  /\ upc' = [upc EXCEPT ![u] = "returned"]
  /\ UNCHANGED <<disk, cache_files, uploaded_files_metadata, uname, taskVars,
                 statusResp, computed, graph, walk, callVars, last, batch, graphResp>>

Submit(u) ==
  \/ \E name \in FileNames, m \in ModelFiles : SubmitSave(u, name, m)
  \/ SubmitRegisterTask(u)
  \/ SubmitRegisterMeta(u)
  \/ SubmitStartThread(u)
  \/ SubmitRespond(u)

(* ---------------------------- ifc_parser.parse_ifc_to_files ------------ *)
IOOutcomes == {"ok", "csv_fail", "json_fail"}

\* the files of the cache folder after the call: both exports written, or the
\* partial exports removed again when a write raised (lines 160-199)
ParseFiles(files, id, df, io) ==
  IF io = "ok"
  THEN WriteFile(WriteFile(files, CsvName(id), df), JsonName(id), df)
  ELSE RemoveFile(RemoveFile(files, CsvName(id)), JsonName(id))

\* mutant: the paths are returned although a write raised
parse_ifc_to_files_despite_error(m, files, id, io) ==
  LET x == extract_properties_from_ifc(m) IN
  IF x.outcome = "raise" THEN [outcome |-> "raise", msg |-> x.msg, paths |-> <<>>, files |-> files]
  ELSE IF IsEmpty(x.df) THEN [outcome |-> "none", msg |-> None, paths |-> <<>>, files |-> files]
  ELSE [outcome |-> "paths", msg |-> None, paths |-> <<CsvName(id), JsonName(id)>>,
        files |-> ParseFiles(files, id, x.df, io)]

\* outcome "raise" (the extraction raised), "none" ((None, None)) or "paths"
parse_ifc_to_files(m, files, id, io) ==
  LET x == extract_properties_from_ifc(m) IN
  IF x.outcome = "raise" THEN [outcome |-> "raise", msg |-> x.msg, paths |-> <<>>, files |-> files]
  ELSE IF IsEmpty(x.df) THEN [outcome |-> "none", msg |-> None, paths |-> <<>>, files |-> files]
  ELSE IF io = "ok"
       THEN [outcome |-> "paths", msg |-> None, paths |-> <<CsvName(id), JsonName(id)>>,
             files |-> ParseFiles(files, id, x.df, io)]
       ELSE [outcome |-> "none", msg |-> None, paths |-> <<>>,
             files |-> ParseFiles(files, id, x.df, io)]

(* ---------------------------- app.parse_ifc_file_async ----------------- *)
SetTask(id, field, val) == [parsing_status EXCEPT ![id] = [@ EXCEPT ![field] = val]]

NoOutputMsg == "Parsing completed but no output files were generated."
RelPathErrorMsg == "path is on mount 'D:', start on mount 'C:'"

\* lines 537-542
WorkerBegin(id) ==
  /\ wpc[id] = "start"
  /\ id \in DOMAIN parsing_status
  /\ parsing_status' = SetTask(id, "status", "processing")
  /\ wpc' = [wpc EXCEPT ![id] = "parse"]
  /\ UNCHANGED <<disk, cache_files, uploaded_files_metadata, uploadVars, wres, wexc,
                 statusResp, computed, graph, walk, callVars, last, batch, graphResp>>

\* line 547 and the branch taken at 549, 557 or 562
WorkerParse(id, io) ==
  /\ wpc[id] = "parse"
  /\ LET r == parse_ifc_to_files(disk[parsing_status[id].saved_path], cache_files, id, io) IN
       /\ cache_files' = r.files
       /\ wres' = [wres EXCEPT ![id] = r.paths]
       /\ wexc' = [wexc EXCEPT ![id] = r.msg]
       /\ wpc' = [wpc EXCEPT ![id] =
                    CASE r.outcome = "raise" -> "exc_status"
                      [] r.outcome = "paths" -> "set_completed"
                      [] OTHER -> "fail_status"]
  /\ UNCHANGED <<disk, parsing_status, uploaded_files_metadata, uploadVars,
                 statusResp, computed, graph, walk, callVars, last, batch, graphResp>>

\* mutant: the worker attaches the table it parsed to the file record
WorkerSetCompletedAttaches(id) ==
  /\ wpc[id] = "set_completed"
  /\ parsing_status' = SetTask(id, "status", "completed")
  /\ uploaded_files_metadata' =
       [uploaded_files_metadata EXCEPT ![id].processed_data_df = cache_files[CsvName(id)]]
  /\ wpc' = [wpc EXCEPT ![id] = "set_result"]
  /\ UNCHANGED <<disk, cache_files, uploadVars, wres, wexc,
                 statusResp, computed, graph, walk, callVars, last, batch, graphResp>>

\* line 550
WorkerSetCompleted(id) ==
  /\ wpc[id] = "set_completed"
  /\ parsing_status' = SetTask(id, "status", "completed")
  /\ wpc' = [wpc EXCEPT ![id] = "set_result"]
  /\ UNCHANGED <<disk, cache_files, uploaded_files_metadata, uploadVars, wres, wexc,
                 statusResp, computed, graph, walk, callVars, last, batch, graphResp>>

\* lines 551-554: the two relpath calls are evaluated before the assignment
WorkerSetResult(id, raises) ==
  /\ wpc[id] = "set_result"
  /\ IF raises
     THEN /\ wexc' = [wexc EXCEPT ![id] = RelPathErrorMsg]
          /\ wpc' = [wpc EXCEPT ![id] = "exc_status"]
          /\ UNCHANGED parsing_status
     ELSE /\ parsing_status' = SetTask(id, "result", <<RelPath(wres[id][1]), RelPath(wres[id][2])>>)
          /\ wpc' = [wpc EXCEPT ![id] = "set_error"]
          /\ UNCHANGED wexc
  /\ UNCHANGED <<disk, cache_files, uploaded_files_metadata, uploadVars, wres,
                 statusResp, computed, graph, walk, callVars, last, batch, graphResp>>

\* line 555
WorkerSetError(id) ==
  /\ wpc[id] = "set_error"
  /\ parsing_status' = SetTask(id, "error", None)
  /\ wpc' = [wpc EXCEPT ![id] = "done"]
  /\ UNCHANGED <<disk, cache_files, uploaded_files_metadata, uploadVars, wres, wexc,
                 statusResp, computed, graph, walk, callVars, last, batch, graphResp>>

\* line 558
WorkerFailStatus(id) ==
  /\ wpc[id] = "fail_status"
  /\ parsing_status' = SetTask(id, "status", "failed")
  /\ wpc' = [wpc EXCEPT ![id] = "fail_error"]
  /\ UNCHANGED <<disk, cache_files, uploaded_files_metadata, uploadVars, wres, wexc,
                 statusResp, computed, graph, walk, callVars, last, batch, graphResp>>

\* line 559
WorkerFailError(id) ==
  /\ wpc[id] = "fail_error"
  /\ parsing_status' = SetTask(id, "error", NoOutputMsg)
  /\ wpc' = [wpc EXCEPT ![id] = "done"]
  /\ UNCHANGED <<disk, cache_files, uploaded_files_metadata, uploadVars, wres, wexc,
                 statusResp, computed, graph, walk, callVars, last, batch, graphResp>>

\* line 563
WorkerExcStatus(id) ==
  /\ wpc[id] = "exc_status"
  /\ parsing_status' = SetTask(id, "status", "failed")
  /\ wpc' = [wpc EXCEPT ![id] = "exc_error"]
  /\ UNCHANGED <<disk, cache_files, uploaded_files_metadata, uploadVars, wres, wexc,
                 statusResp, computed, graph, walk, callVars, last, batch, graphResp>>

\* mutant: the exception handler sets the status and forgets the message
WorkerExcErrorForgets(id) ==
  /\ wpc[id] = "exc_error"
  /\ wpc' = [wpc EXCEPT ![id] = "done"]
  /\ UNCHANGED <<disk, cache_files, parsing_status, uploaded_files_metadata, uploadVars,
                 wres, wexc, statusResp, computed, graph, walk, callVars, last, batch, graphResp>>

\* line 564
WorkerExcError(id) ==
  /\ wpc[id] = "exc_error"
  /\ parsing_status' = SetTask(id, "error", wexc[id])
  /\ wpc' = [wpc EXCEPT ![id] = "done"]
  /\ UNCHANGED <<disk, cache_files, uploaded_files_metadata, uploadVars, wres, wexc,
                 statusResp, computed, graph, walk, callVars, last, batch, graphResp>>

Worker(id) ==
  \/ WorkerBegin(id)
  \/ \E io \in IOOutcomes : WorkerParse(id, io)
  \/ WorkerSetCompleted(id)
  \/ \E raises \in BOOLEAN : WorkerSetResult(id, raises)
  \/ WorkerSetError(id)
  \/ WorkerFailStatus(id)
  \/ WorkerFailError(id)
  \/ WorkerExcStatus(id)
  \/ WorkerExcError(id)

(* ---------------------------- app.get_parsing_status ------------------- *)
\* mutant: the endpoint looks the id up in the other registry
StatusResponseByMetadata(fid) ==
  IF fid \in DOMAIN uploaded_files_metadata
  THEN [id |-> fid, code |-> 200, body |-> <<parsing_status[fid]>>]
  ELSE [id |-> fid, code |-> 404, body |-> <<>>]

StatusResponse(fid) ==
  IF fid \in DOMAIN parsing_status
  THEN [id |-> fid, code |-> 200, body |-> <<parsing_status[fid]>>]
  ELSE [id |-> fid, code |-> 404, body |-> <<>>]

\* lines 570-578
GetStatus(fid) ==
  /\ statusResp' = StatusResponse(fid)
  /\ UNCHANGED <<disk, cache_files, uploaded_files_metadata, uploadVars, taskVars,
                 callVars, last, computed, batch, graphResp, graph, walk>>

(* ---------------------------- app.process_single_ifc_file -------------- *)
CallKinds == {"extract", "chart", "graph"}
PickleOutcomes == {"ok", "fail"}

\* extract_data and generate_chart run the call on a ThreadPoolExecutor thread,
\* generate_graph runs it on the request thread (lines 381, 436, 489)
OnPool(kind) == kind \in {"extract", "chart"}

SetInfo(id, field, val) ==
  [uploaded_files_metadata EXCEPT ![id] = [@ EXCEPT ![field] = val]]

\* mutant: every registered file is processed, whatever the status of its task
EligibleAnyStatus(fid) ==
  /\ fid \in DOMAIN parsing_status
  /\ fid \in DOMAIN uploaded_files_metadata

\* mutant: every file whose worker has ended is processed
EligibleWhenSettled(fid) ==
  /\ fid \in DOMAIN parsing_status
  /\ parsing_status[fid].status \in {"completed", "failed"}
  /\ fid \in DOMAIN uploaded_files_metadata

\* lines 378-379, 433-434, 485: only a completed, registered file is processed
Eligible(fid) ==
  /\ fid \in DOMAIN parsing_status
  /\ parsing_status[fid].status = "completed"
  /\ fid \in DOMAIN uploaded_files_metadata

\* the request handlers of extract_data, generate_chart and generate_graph
\* up to the call of process_single_ifc_file (lines 88-91 included)
CallStart(c, kind, fid) ==
  /\ cpc[c] = "idle"
  /\ \A d \in Callers : d < c => cpc[d] # "idle"
  /\ ncalls < MaxCalls
  /\ ncalls' = ncalls + 1
  /\ IF Eligible(fid)
     THEN /\ cpc' = [cpc EXCEPT ![c] = "r_disk"]
          /\ call' = [call EXCEPT ![c] =
                        [id |-> fid, pool |-> OnPool(kind),
                         cached |-> uploaded_files_metadata[fid].cached_df_path,
                         df |-> NoDF, prev |-> last[fid], tainted |-> FALSE]]
          /\ clog' = [clog EXCEPT ![c] = <<>>]
     ELSE UNCHANGED <<cpc, call, clog>>
  /\ UNCHANGED <<disk, cache_files, parsing_status, uploaded_files_metadata, uploadVars,
                 wpc, wres, wexc, statusResp, computed, graph, walk, last, pairs, batch, graphResp>>

\* the columns of a table: those of its rows
Columns(df) == IF df.rows = <<>> THEN {} ELSE DOMAIN df.rows[1]

\* lines 494-503 of generate_graph: the nodes of the graph drawn from the
\* table, one per entity and one per property set of the rows in which both
\* are not null, when the table has the two columns the code names
TableGraphNodes(df) ==
  IF "IfcEntity" \in Columns(df) /\ "PropertySet" \in Columns(df)
  THEN UNION {{df.rows[x]["IfcEntity"], df.rows[x]["PropertySet"]} :
                x \in {y \in 1..Len(df.rows) :
                         /\ df.rows[y]["IfcEntity"] # None
                         /\ df.rows[y]["PropertySet"] # None}}
  ELSE {}

\* line 515
GraphFileName(id) == <<"graph_">> \o Replace(IdText(id), "-", "_") \o <<".png">>

\* lines 491-525 of generate_graph: the response for the table the call
\* returned for the file id
GraphResponse(id, df) ==
  IF df.isNone \/ IsEmpty(df)
  THEN [pc |-> "done", id |-> id, eligible |-> TRUE, rows |-> 0,
        code |-> 400, nodes |-> {}, graph_path |-> <<>>]
  ELSE IF TableGraphNodes(df) = {}
  THEN [pc |-> "done", id |-> id, eligible |-> TRUE, rows |-> Len(df.rows),
        code |-> 200, nodes |-> {}, graph_path |-> <<>>]
  ELSE [pc |-> "done", id |-> id, eligible |-> TRUE, rows |-> Len(df.rows),
        code |-> 200, nodes |-> TableGraphNodes(df), graph_path |-> GraphFileName(id)]

\* lines 476-489 of generate_graph, for a body that carries a file id: 404
\* for a file that is not eligible, else the call of process_single_ifc_file
\* on the request thread
GraphRequest(c, fid) ==
  /\ cpc[c] = "idle"
  /\ \A d \in Callers : d < c => cpc[d] # "idle"
  /\ ncalls < MaxCalls
  /\ ncalls' = ncalls + 1
  /\ IF Eligible(fid)
     THEN /\ cpc' = [cpc EXCEPT ![c] = "r_disk"]
          /\ call' = [call EXCEPT ![c] =
                        [id |-> fid, pool |-> FALSE,
                         cached |-> uploaded_files_metadata[fid].cached_df_path,
                         df |-> NoDF, prev |-> last[fid], tainted |-> FALSE]]
          /\ clog' = [clog EXCEPT ![c] = <<>>]
          /\ graphResp' = [graphResp EXCEPT ![c] =
                             [NoGraphResp EXCEPT !.pc = "wait", !.id = fid,
                                                 !.eligible = TRUE]]
     ELSE /\ graphResp' = [graphResp EXCEPT ![c] =
                             [NoGraphResp EXCEPT !.pc = "done", !.id = fid, !.code = 404]]
          /\ UNCHANGED <<cpc, call, clog>>
  /\ UNCHANGED <<disk, cache_files, parsing_status, uploaded_files_metadata, uploadVars,
                 wpc, wres, wexc, statusResp, computed, graph, walk, last, pairs, batch>>

\* the return statement of process_single_ifc_file (lines 98, 107, 142):
\* the tuple becomes the result of the future when the call was submitted to
\* the pool of a request (lines 381, 436)
Return(c, df) ==
  /\ cpc' = [cpc EXCEPT ![c] = "idle"]
  /\ call' = [call EXCEPT ![c] = NoCall]
  /\ batch' = IF c <= batch.nf
              THEN [batch EXCEPT !.res[c] =
                      <<[id |-> call[c].id,
                         name |-> uploaded_files_metadata[call[c].id].original_filename,
                         df |-> df]>>,
                                 !.early = @ \/ \E d \in 1..(c - 1) :
                                             batch.res[d] = <<>> /\ cpc[d] # "r_raised"]
              ELSE batch
  /\ graphResp' = [graphResp EXCEPT ![c] =
                     IF @.pc = "wait" THEN GraphResponse(@.id, df) ELSE @]
  /\ IF call[c].tainted
     THEN UNCHANGED <<last, pairs>>
     ELSE /\ last' = [last EXCEPT ![call[c].id] = @ \cup {df}]
          /\ pairs' = pairs \cup {<<t, df>> : t \in call[c].prev}

Log(c, tier, found) == clog' = [clog EXCEPT ![c] = Append(@, <<tier, found>>)]

\* pd.read_pickle of what df.to_pickle wrote
read_pickle(name) == cache_files[name]

\* mutant: a failed read of the persisted table ends the call
CallDiskFatal(c, pio) ==
  /\ cpc[c] = "r_disk"
  /\ IF call[c].cached # None /\ Exists(call[c].cached)
     THEN IF pio = "ok"
          THEN /\ uploaded_files_metadata' =
                    SetInfo(call[c].id, "processed_data_df", read_pickle(call[c].cached))
               /\ Return(c, read_pickle(call[c].cached))
               /\ Log(c, "disk", TRUE)
          ELSE /\ cpc' = [cpc EXCEPT ![c] = "r_raised"]
               /\ Log(c, "disk", FALSE)
               /\ UNCHANGED <<uploaded_files_metadata, call, last, pairs, batch, graphResp>>
     ELSE /\ pio = "ok"
          /\ cpc' = [cpc EXCEPT ![c] = "r_mem"]
          /\ Log(c, "disk", FALSE)
          /\ UNCHANGED <<uploaded_files_metadata, call, last, pairs, batch, graphResp>>
  /\ UNCHANGED <<disk, cache_files, parsing_status, uploadVars, wpc, wres, wexc,
                 statusResp, computed, graph, walk, ncalls>>

\* lines 93-101: the persisted table
CallDisk(c, pio) ==
  /\ cpc[c] = "r_disk"
  /\ IF call[c].cached # None /\ Exists(call[c].cached)
     THEN IF pio = "ok"
          THEN /\ uploaded_files_metadata' =
                    SetInfo(call[c].id, "processed_data_df", read_pickle(call[c].cached))
               /\ Return(c, read_pickle(call[c].cached))
               /\ Log(c, "disk", TRUE)
          ELSE /\ cpc' = [cpc EXCEPT ![c] = "r_mem"]
               /\ Log(c, "disk", FALSE)
               /\ UNCHANGED <<uploaded_files_metadata, call, last, pairs, batch, graphResp>>
     ELSE /\ pio = "ok"
          /\ cpc' = [cpc EXCEPT ![c] = "r_mem"]
          /\ Log(c, "disk", FALSE)
          /\ UNCHANGED <<uploaded_files_metadata, call, last, pairs, batch, graphResp>>
  /\ UNCHANGED <<disk, cache_files, parsing_status, uploadVars, wpc, wres, wexc,
                 statusResp, computed, graph, walk, ncalls>>

\* mutant: the attached table is looked at but the call goes on to extract
CallMemFallsThrough(c) ==
  /\ cpc[c] = "r_mem"
  /\ cpc' = [cpc EXCEPT ![c] = "r_extract"]
  /\ Log(c, "mem", ~uploaded_files_metadata[call[c].id].processed_data_df.isNone)
  /\ UNCHANGED <<disk, cache_files, parsing_status, uploaded_files_metadata, uploadVars,
                 wpc, wres, wexc, statusResp, computed, graph, walk, ncalls, call, last, pairs, batch, graphResp>>

\* lines 103-107: the table attached to the file record
CallMem(c) ==
  /\ cpc[c] = "r_mem"
  /\ LET df == uploaded_files_metadata[call[c].id].processed_data_df IN
       IF ~df.isNone
       THEN /\ Return(c, df)
            /\ Log(c, "mem", TRUE)
       ELSE /\ cpc' = [cpc EXCEPT ![c] = "r_extract"]
            /\ Log(c, "mem", FALSE)
            /\ UNCHANGED <<call, last, pairs, batch, graphResp>>
  /\ UNCHANGED <<disk, cache_files, parsing_status, uploaded_files_metadata, uploadVars,
                 wpc, wres, wexc, statusResp, computed, graph, walk, ncalls>>

\* lines 109-116 and 134-140: the fresh extraction
CallExtract(c) ==
  /\ cpc[c] = "r_extract"
  /\ LET m == disk[uploaded_files_metadata[call[c].id].saved_path]
         x == extract_properties_from_ifc(m) IN
       IF ~m.present
       THEN /\ Return(c, EmptyDF)
            /\ Log(c, "fresh", FALSE)
            /\ UNCHANGED computed
       ELSE IF x.outcome = "raise"
       THEN /\ Log(c, "fresh", FALSE)
            /\ UNCHANGED computed
            /\ IF ~call[c].pool
               THEN Return(c, EmptyDF)
               \* line 136: current_app has no application context on a pool thread
               ELSE /\ cpc' = [cpc EXCEPT ![c] = "r_raised"]
                    /\ UNCHANGED <<call, last, pairs, batch, graphResp>>
       ELSE /\ cpc' = [cpc EXCEPT ![c] = "r_attach"]
            /\ call' = [call EXCEPT ![c].df = x.df]
            /\ computed' = [computed EXCEPT ![call[c].id] = x.df]
            /\ Log(c, "fresh", TRUE)
            /\ UNCHANGED <<last, pairs, batch, graphResp>>
  /\ UNCHANGED <<disk, cache_files, parsing_status, uploaded_files_metadata, uploadVars,
                 wpc, wres, wexc, statusResp, graph, walk, ncalls>>

\* mutant: the handler marks the file failed when its future raised
CallCaughtMarksFailed(c) ==
  /\ cpc[c] = "r_raised"
  /\ cpc' = [cpc EXCEPT ![c] = "idle"]
  /\ call' = [call EXCEPT ![c] = NoCall]
  /\ parsing_status' = SetTask(call[c].id, "status", "failed")
  /\ UNCHANGED <<disk, cache_files, uploaded_files_metadata, uploadVars,
                 wpc, wres, wexc, statusResp, computed, graph, walk, ncalls, clog, last, pairs, batch, graphResp>>

\* lines 397-398, 459-460: the handler logs the exception of the future
CallCaught(c) ==
  /\ cpc[c] = "r_raised"
  /\ cpc' = [cpc EXCEPT ![c] = "idle"]
  /\ call' = [call EXCEPT ![c] = NoCall]
  /\ UNCHANGED <<disk, cache_files, parsing_status, uploaded_files_metadata, uploadVars,
                 wpc, wres, wexc, statusResp, computed, graph, walk, ncalls, clog, last, pairs, batch, graphResp>>

\* mutant: the fresh table is persisted whether it has rows or not
CallAttachAlwaysPersists(c) ==
  /\ cpc[c] = "r_attach"
  /\ uploaded_files_metadata' = SetInfo(call[c].id, "processed_data_df", call[c].df)
  /\ cpc' = [cpc EXCEPT ![c] = "r_pickle"]
  /\ UNCHANGED <<call, last, pairs, batch, graphResp>>
  /\ UNCHANGED <<disk, cache_files, parsing_status, uploadVars, wpc, wres, wexc,
                 statusResp, computed, graph, walk, ncalls, clog>>

\* lines 117-120, 129-130: attach in memory
CallAttach(c) ==
  /\ cpc[c] = "r_attach"
  /\ uploaded_files_metadata' = SetInfo(call[c].id, "processed_data_df", call[c].df)
  /\ IF IsEmpty(call[c].df)
     THEN Return(c, call[c].df)
     ELSE /\ cpc' = [cpc EXCEPT ![c] = "r_pickle"]
          /\ UNCHANGED <<call, last, pairs, batch, graphResp>>
  /\ UNCHANGED <<disk, cache_files, parsing_status, uploadVars, wpc, wres, wexc,
                 statusResp, computed, graph, walk, ncalls, clog>>

\* lines 121-124, 127-128: persist
CallPickle(c, pio) ==
  /\ cpc[c] = "r_pickle"
  /\ IF pio = "ok"
     THEN /\ cache_files' = WriteFile(cache_files, PklName(call[c].id), call[c].df)
          /\ cpc' = [cpc EXCEPT ![c] = "r_setpath"]
          /\ UNCHANGED <<call, last, pairs, batch, graphResp>>
     ELSE /\ Return(c, call[c].df)
          /\ UNCHANGED cache_files
  /\ UNCHANGED <<disk, parsing_status, uploaded_files_metadata, uploadVars, wpc, wres, wexc,
                 statusResp, computed, graph, walk, ncalls, clog>>

\* lines 125-126
CallSetPath(c) ==
  /\ cpc[c] = "r_setpath"
  /\ uploaded_files_metadata' = SetInfo(call[c].id, "cached_df_path", PklName(call[c].id))
  /\ Return(c, call[c].df)
  /\ UNCHANGED <<disk, cache_files, parsing_status, uploadVars, wpc, wres, wexc,
                 statusResp, computed, graph, walk, ncalls, clog>>

Resolve(c) ==
  \/ \E pio \in PickleOutcomes : CallDisk(c, pio)
  \/ CallMem(c)
  \/ CallExtract(c)
  \/ CallCaught(c)
  \/ CallAttach(c)
  \/ \E pio \in PickleOutcomes : CallPickle(c, pio)
  \/ CallSetPath(c)

(* ---------------------------- app.extract_data, app.generate_chart ----- *)
BatchKinds == {"extract", "chart"}
\* data_visualizer.plot_entity_counts: an image, no image, or an exception
PlotOutcomes == {"ok", "none", "raise"}
\* lines 375, 430
PoolCap == 5

Min(a, b) == IF a < b THEN a ELSE b

\* mutant: one pool thread per listed id
PoolSizeUnbounded(ids) == Len(ids)

\* max_workers of the executor (lines 375, 430)
PoolSize(ids) == Min(PoolCap, Len(ids))

\* the calls a pool thread is executing
Running ==
  {c \in DOMAIN cpc :
     cpc[c] \in {"r_disk", "r_mem", "r_extract", "r_attach", "r_pickle", "r_setpath"}}

\* lines 391-392: the copy of the table with the column 'Source Model'
AddSource(rows, name) ==
  [i \in 1..Len(rows) |->
     [Source_Model |-> name, FileName |-> rows[i].FileName,
      IFC_Entity |-> rows[i].IFC_Entity, IFC_Name |-> rows[i].IFC_Name,
      IFC_GlobalId |-> rows[i].IFC_GlobalId, PropertySet |-> rows[i].PropertySet,
      PropertyName |-> rows[i].PropertyName, PropertyValue |-> rows[i].PropertyValue]]

\* lines 449-453: the entry of charts_data
ChartEntry(id, name) == <<[file_id |-> id, filename |-> name]>>

\* what line 378 finds for an id
StatusSeen(fid) ==
  IF fid \in DOMAIN parsing_status THEN parsing_status[fid].status ELSE "unknown"

\* lines 364-373, 419-428: the request body holds the list ids
BatchRequest(kind, ids) ==
  /\ batch.pc = "none"
  /\ batch' = IF ids = <<>>
              THEN [NoBatch EXCEPT !.pc = "done", !.kind = kind,
                                   !.resp = [NoResponse EXCEPT !.code = 400]]
              ELSE [NoBatch EXCEPT !.pc = "submit", !.kind = kind, !.ids = ids]
  /\ UNCHANGED <<disk, cache_files, parsing_status, uploaded_files_metadata, uploadVars,
                 wpc, wres, wexc, statusResp, cpc, call, ncalls, clog, last, pairs,
                 computed, graph, walk, graphResp>>

\* mutant: an id that was submitted already is skipped
BatchSubmitOnce ==
  /\ batch.pc = "submit"
  /\ batch.i <= Len(batch.ids)
  /\ LET fid == batch.ids[batch.i]
         k == batch.nf + 1 IN
       IF Eligible(fid) /\ ~\E d \in 1..batch.nf : batch.ids[batch.pos[d]] = fid
       THEN /\ batch' = [batch EXCEPT !.i = @ + 1, !.nf = k, !.res = Append(@, <<>>),
                                      !.pos = Append(@, batch.i),
                                      !.seen = Append(@, StatusSeen(fid))]
            /\ cpc' = [cpc EXCEPT ![k] = "queued"]
            /\ call' = [call EXCEPT ![k] = [NoCall EXCEPT !.id = fid, !.pool = TRUE]]
       ELSE /\ batch' = [batch EXCEPT !.i = @ + 1, !.seen = Append(@, StatusSeen(fid))]
            /\ UNCHANGED <<cpc, call>>
  /\ UNCHANGED <<disk, cache_files, parsing_status, uploaded_files_metadata, uploadVars,
                 wpc, wres, wexc, statusResp, ncalls, clog, last, pairs, computed, graph, walk, graphResp>>

\* lines 377-385, 432-440: one round of the loop over file_ids
BatchSubmit ==
  /\ batch.pc = "submit"
  /\ batch.i <= Len(batch.ids)
  /\ LET fid == batch.ids[batch.i]
         k == batch.nf + 1 IN
       IF Eligible(fid)
       THEN /\ batch' = [batch EXCEPT !.i = @ + 1, !.nf = k, !.res = Append(@, <<>>),
                                      !.pos = Append(@, batch.i),
                                      !.seen = Append(@, StatusSeen(fid))]
            /\ cpc' = [cpc EXCEPT ![k] = "queued"]
            /\ call' = [call EXCEPT ![k] = [NoCall EXCEPT !.id = fid, !.pool = TRUE]]
       ELSE /\ batch' = [batch EXCEPT !.i = @ + 1, !.seen = Append(@, StatusSeen(fid))]
            /\ UNCHANGED <<cpc, call>>
  /\ UNCHANGED <<disk, cache_files, parsing_status, uploaded_files_metadata, uploadVars,
                 wpc, wres, wexc, statusResp, ncalls, clog, last, pairs, computed, graph, walk, graphResp>>

\* the end of the loop over file_ids
BatchSubmitted ==
  /\ batch.pc = "submit"
  /\ batch.i > Len(batch.ids)
  /\ batch' = [batch EXCEPT !.pc = "collect"]
  /\ UNCHANGED <<disk, cache_files, parsing_status, uploaded_files_metadata, uploadVars,
                 wpc, wres, wexc, statusResp, cpc, call, ncalls, clog, last, pairs,
                 computed, graph, walk, graphResp>>

\* a pool thread takes the oldest queued call (lines 381, 436 with the
\* max_workers of lines 375, 430) and enters process_single_ifc_file (88-91)
PoolStart(k) ==
  /\ cpc[k] = "queued"
  /\ \A d \in DOMAIN cpc : d < k => cpc[d] # "queued"
  /\ Cardinality(Running) < PoolSize(batch.ids)
  /\ cpc' = [cpc EXCEPT ![k] = "r_disk"]
  /\ call' = [call EXCEPT ![k] =
                [@ EXCEPT !.cached = uploaded_files_metadata[call[k].id].cached_df_path,
                          !.prev = last[call[k].id]]]
  /\ clog' = [clog EXCEPT ![k] = <<>>]
  /\ UNCHANGED <<disk, cache_files, parsing_status, uploaded_files_metadata, uploadVars,
                 wpc, wres, wexc, statusResp, ncalls, last, pairs, computed, batch, graphResp, graph, walk>>

\* process_single_ifc_file on a pool thread
PoolRun(c) ==
  \/ \E pio \in PickleOutcomes : CallDisk(c, pio)
  \/ CallMem(c)
  \/ CallExtract(c)
  \/ CallAttach(c)
  \/ \E pio \in PickleOutcomes : CallPickle(c, pio)
  \/ CallSetPath(c)

\* a future has ended: with a tuple or with an exception
Ended(k) == batch.res[k] # <<>> \/ cpc[k] = "r_raised"

\* mutant: the exception of a future ends the request with an error
CollectedAborts(j, plot) ==
  IF batch.res[j] = <<>>
  THEN [batch EXCEPT !.pc = "done", !.resp = [NoResponse EXCEPT !.code = 500]]
  ELSE LET r == batch.res[j][1] IN
       IF r.df.isNone \/ IsEmpty(r.df)
       THEN [batch EXCEPT !.j = @ + 1]
       ELSE IF batch.kind = "extract"
       THEN [batch EXCEPT !.j = @ + 1, !.count = @ + 1,
                          !.frames = Append(@, AddSource(r.df.rows, r.name))]
       ELSE IF plot = "ok"
       THEN [batch EXCEPT !.j = @ + 1, !.count = @ + 1,
                          !.frames = Append(@, ChartEntry(r.id, r.name))]
       ELSE [batch EXCEPT !.j = @ + 1]

\* what one round of the loop over futures does with the result of future j
Collected(j, plot) ==
  IF batch.res[j] = <<>>
  THEN [batch EXCEPT !.j = @ + 1]
  ELSE LET r == batch.res[j][1] IN
       IF r.df.isNone \/ IsEmpty(r.df)
       THEN [batch EXCEPT !.j = @ + 1]
       ELSE IF batch.kind = "extract"
       THEN [batch EXCEPT !.j = @ + 1, !.count = @ + 1,
                          !.frames = Append(@, AddSource(r.df.rows, r.name))]
       ELSE IF plot = "ok"
       THEN [batch EXCEPT !.j = @ + 1, !.count = @ + 1,
                          !.frames = Append(@, ChartEntry(r.id, r.name))]
       ELSE [batch EXCEPT !.j = @ + 1]

\* lines 387-398, 442-460: one round of the loop over futures; result()
\* waits for the future and re-raises its exception, which is logged
BatchCollect(plot) ==
  /\ batch.pc = "collect"
  /\ batch.j <= batch.nf
  /\ Ended(batch.j)
  /\ batch' = Collected(batch.j, plot)
  /\ UNCHANGED <<disk, cache_files, parsing_status, uploaded_files_metadata, uploadVars,
                 wpc, wres, wexc, statusResp, cpc, call, ncalls, clog, last, pairs,
                 computed, graph, walk, graphResp>>

\* mutant: the tables are concatenated last first
ResponseLastFirst(frames, count) ==
  IF frames = <<>>
  THEN [NoResponse EXCEPT !.code = 200]
  ELSE [code |-> 200, reports |-> TRUE, count |-> count,
        total |-> Len(Flatten(frames)),
        data |-> Flatten([k \in 1..Len(frames) |-> frames[Len(frames) + 1 - k]])]

\* lines 400-408, 462-466
Response(frames, count) ==
  IF frames = <<>>
  THEN [NoResponse EXCEPT !.code = 200]
  ELSE [code |-> 200, reports |-> TRUE, count |-> count,
        total |-> Len(Flatten(frames)), data |-> Flatten(frames)]

BatchRespond ==
  /\ batch.pc = "collect"
  /\ batch.j > batch.nf
  /\ batch' = [batch EXCEPT !.pc = "done", !.resp = Response(batch.frames, batch.count)]
  /\ UNCHANGED <<disk, cache_files, parsing_status, uploaded_files_metadata, uploadVars,
                 wpc, wres, wexc, statusResp, cpc, call, ncalls, clog, last, pairs,
                 computed, graph, walk, graphResp>>

(* ---------------------------- graph_builder.build_graph_from_ifc ------- *)
\* an entity of the model an attribute of a relationship refers to; NoEntity
\* is an attribute that is None
Entity(g, t, n) == [hasGid |-> TRUE, gid |-> g, type |-> t, name |-> n]
NoEntity == [hasGid |-> FALSE, gid |-> None, type |-> None, name |-> None]

\* a relationship: its type, its step id, its Name when it has that attribute,
\* the entity of its Relating attribute and those of its Related attribute
Rel(t, id, hasName, n, relating, related) ==
  [is_a |-> t, id |-> id, hasName |-> hasName, name |-> n,
   relating |-> relating, related |-> related]

\* ifc_model.by_type(t) for the relationship types of lines 97-132
ByType(rels, t) == SelectSeq(rels, LAMBDA rel : rel.is_a = t)

Cand(src, tgt, rel, label) == [src |-> src, tgt |-> tgt, rel |-> rel, label |-> label]

\* lines 97-101: element -> containing structure
ContainedCands(rels) ==
  LET rs == ByType(rels, "IfcRelContainedInSpatialStructure") IN
  Flatten([x \in 1..Len(rs) |->
     [y \in 1..Len(rs[x].related) |->
        Cand(rs[x].related[y], rs[x].relating, rs[x], "is_contained_in")]])

\* lines 104-108: part -> whole
AggregatesCands(rels) ==
  LET rs == ByType(rels, "IfcRelAggregates") IN
  Flatten([x \in 1..Len(rs) |->
     [y \in 1..Len(rs[x].related) |->
        Cand(rs[x].related[y], rs[x].relating, rs[x], "is_part_of")]])

\* mutant: the reciprocal edge of lines 120-121 is added as well
ConnectsCandsBothWays(rels) ==
  LET rs == ByType(rels, "IfcRelConnectsElements") IN
  Flatten([x \in 1..Len(rs) |->
     << Cand(rs[x].relating, rs[x].related[1], rs[x], "connects_to"),
        Cand(rs[x].related[1], rs[x].relating, rs[x], "connects_to") >>])

\* lines 113-118: relating element -> related element, for the relations that
\* have both attributes
ConnectsCands(rels) ==
  LET rs == ByType(rels, "IfcRelConnectsElements") IN
  [x \in 1..Len(rs) |-> Cand(rs[x].relating, rs[x].related[1], rs[x], "connects_to")]

\* lines 125-129: opening -> voided element
VoidsCands(rels) ==
  LET rs == ByType(rels, "IfcRelVoidsElement") IN
  [x \in 1..Len(rs) |-> Cand(rs[x].related[1], rs[x].relating, rs[x], "voids_in_element")]

\* lines 132-136: filling element -> opening
FillsCands(rels) ==
  LET rs == ByType(rels, "IfcRelFillsElement") IN
  [x \in 1..Len(rs) |-> Cand(rs[x].related[1], rs[x].relating, rs[x], "fills_opening")]

\* the calls of add_relationship_edge in the order of lines 97-136
EdgeCandidates(rels) ==
  ContainedCands(rels) \o AggregatesCands(rels) \o ConnectsCands(rels)
    \o VoidsCands(rels) \o FillsCands(rels)

\* G.has_node
has_node(nodes, n) == n \in DOMAIN nodes

\* G.add_node (lines 55-61) and G.add_edge (lines 80-86) of a DiGraph
add_node(nodes, n, attrs) ==
  [x \in DOMAIN nodes \cup {n} |-> IF x = n THEN attrs ELSE nodes[x]]
\* mutant: the attributes of an edge that exists are kept
add_edge_keep_first(edges, u, v, attrs) ==
  [x \in DOMAIN edges \cup {<<u, v>>} |-> IF x \in DOMAIN edges THEN edges[x] ELSE attrs]
add_edge(edges, u, v, attrs) ==
  [x \in DOMAIN edges \cup {<<u, v>>} |-> IF x = <<u, v>> THEN attrs ELSE edges[x]]

EdgeAttrs(cand) ==
  [relation_type |-> cand.rel.is_a,
   relation_name |-> IF cand.rel.hasName THEN cand.rel.name ELSE cand.label,
   ifc_rel_id |-> cand.rel.id]

\* every variable but graph
appVars == <<disk, cache_files, parsing_status, uploaded_files_metadata, upc, uname,
             wpc, wres, wexc, statusResp, cpc, call, ncalls, clog, last, pairs,
             computed, batch, graphResp, walk>>

\* lines 29-44: open the model; (None, 0.0) when it cannot be opened
GraphOpen(m) ==
  /\ graph.pc = "none"
  /\ graph' = IF m.canOpen
              THEN [NoGraph EXCEPT !.pc = "nodes", !.products = m.products,
                                   !.cands = EdgeCandidates(m.rels), !.opened = TRUE]
              ELSE [NoGraph EXCEPT !.pc = "failed"]
  /\ UNCHANGED appVars

\* lines 46-64: one round of the loop over the IfcProduct instances
GraphAddNode ==
  /\ graph.pc = "nodes"
  /\ graph.i <= Len(graph.products)
  /\ LET item == graph.products[graph.i] IN
       graph' = IF item.gid \in {None, ""}
                THEN [graph EXCEPT !.i = @ + 1]
                ELSE [graph EXCEPT !.i = @ + 1,
                        !.nodes = add_node(@, item.gid,
                                           [ifc_type |-> item.type, name |-> item.name])]
  /\ UNCHANGED appVars

\* line 66: the loop over the instances has ended
GraphNodesDone ==
  /\ graph.pc = "nodes"
  /\ graph.i > Len(graph.products)
  /\ graph' = [graph EXCEPT !.pc = "edges"]
  /\ UNCHANGED appVars

\* mutant: the edge is added without the test of line 79; a DiGraph adds the
\* missing end points as nodes
GraphAddEdgeUnchecked ==
  /\ graph.pc = "edges"
  /\ graph.r <= Len(graph.cands)
  /\ LET cand == graph.cands[graph.r] IN
       graph' = IF ~(cand.src.hasGid /\ cand.tgt.hasGid)
                THEN [graph EXCEPT !.r = @ + 1]
                ELSE [graph EXCEPT !.r = @ + 1, !.count = @ + 1,
                        !.edges = add_edge(@, cand.src.gid, cand.tgt.gid, EdgeAttrs(cand)),
                        !.nodes = [x \in DOMAIN @ \cup {cand.src.gid, cand.tgt.gid} |->
                                     IF x \in DOMAIN @ THEN @[x]
                                     ELSE [ifc_type |-> None, name |-> None]]]
  /\ UNCHANGED appVars

\* lines 71-92 called from lines 97-136: one call of add_relationship_edge
GraphAddEdge ==
  /\ graph.pc = "edges"
  /\ graph.r <= Len(graph.cands)
  /\ LET cand == graph.cands[graph.r] IN
       graph' = IF ~(cand.src.hasGid /\ cand.tgt.hasGid)
                THEN [graph EXCEPT !.r = @ + 1]
                ELSE IF has_node(graph.nodes, cand.src.gid) /\ has_node(graph.nodes, cand.tgt.gid)
                THEN [graph EXCEPT !.r = @ + 1, !.count = @ + 1,
                        !.edges = add_edge(@, cand.src.gid, cand.tgt.gid, EdgeAttrs(cand))]
                ELSE [graph EXCEPT !.r = @ + 1]
  /\ UNCHANGED appVars

\* mutant: a graph without nodes is returned as the failure pair
GraphReturnNoneWhenEmpty ==
  /\ graph.pc = "edges"
  /\ graph.r > Len(graph.cands)
  /\ graph' = [graph EXCEPT !.pc = "done",
                 !.ret = IF DOMAIN graph.nodes = {} THEN NoReturn
                         ELSE [isNone |-> FALSE, nodes |-> graph.nodes,
                               edges |-> graph.edges, measured |-> TRUE]]
  /\ UNCHANGED appVars

\* lines 143-148: return G, build_duration
GraphReturn ==
  /\ graph.pc = "edges"
  /\ graph.r > Len(graph.cands)
  /\ graph' = [graph EXCEPT !.pc = "done",
                 !.ret = [isNone |-> FALSE, nodes |-> graph.nodes,
                          edges |-> graph.edges, measured |-> TRUE]]
  /\ UNCHANGED appVars

(* ---------------------------- sample models for the graph -------------- *)
Wall == Entity("w1", "IfcWall", "W1")
Storey == Entity("s1", "IfcBuildingStorey", "S1")
Door == Entity("d1", "IfcDoor", None)
Opening == Entity("o1", "IfcOpeningElement", "O1")
\* products whose GlobalId is None or empty
NoIdProduct == Entity(None, "IfcWall", "W9")
EmptyIdProduct == Entity("", "IfcSlab", "S9")
\* an entity with a GlobalId that is no IfcProduct
Project == Entity("p1", "IfcProject", "P")

\* a second instance that carries the GlobalId of the wall
WallTwin == Entity("w1", "IfcDoor", "D7")

ProductLists ==
  { <<>>, <<Wall, Storey>>, <<NoIdProduct, EmptyIdProduct>>,
    <<Wall, NoIdProduct, Storey, EmptyIdProduct, Door, Opening>>,
    <<Wall, Storey, WallTwin>> }

RelPool ==
  << Rel("IfcRelContainedInSpatialStructure", 11, TRUE, None, Storey, <<Wall, NoIdProduct, Door>>),
     Rel("IfcRelContainedInSpatialStructure", 12, TRUE, "c", NoEntity, <<Wall>>),
     Rel("IfcRelAggregates", 13, TRUE, None, Project, <<Storey>>),
     Rel("IfcRelAggregates", 14, TRUE, "agg", Storey, <<Wall, EmptyIdProduct>>),
     Rel("IfcRelConnectsElements", 15, TRUE, "joint", Wall, <<Door>>),
     Rel("IfcRelVoidsElement", 16, TRUE, None, Wall, <<Opening>>),
     Rel("IfcRelFillsElement", 17, TRUE, None, Opening, <<Door>>),
     Rel("IfcRelConnectsElements", 18, FALSE, None, EmptyIdProduct, <<Wall>>),
     Rel("IfcRelContainedInSpatialStructure", 19, TRUE, None, Storey, <<Wall>>) >>

\* the models: a list of products and at most MaxRels relationships of the
\* pool, each at most once (a step id names one record)
MaxRels == 2
RelLists ==
  {rs \in UNION {[1..n -> Range(RelPool)] : n \in 0..MaxRels} :
     \A x \in DOMAIN rs : \A y \in DOMAIN rs : x # y => rs[x].id # rs[y].id}
GraphModels ==
  {[canOpen |-> TRUE, products |-> ps, rels |-> rs] : ps \in ProductLists, rs \in RelLists}
    \cup {[canOpen |-> FALSE, products |-> <<>>, rels |-> <<>>]}

(* ---------------------------- specifications --------------------------- *)
\* upload, parsing worker and status endpoint
Next ==
  \/ \E u \in Uploads : Submit(u)
  \/ \E id \in Uploads : Worker(id)
  \/ \E fid \in Uploads \cup {UnknownId} : GetStatus(fid)

Spec == Init /\ [][Next]_vars

\* the threads of the upload handler and of the workers are scheduled fairly:
\* no thread disables a step of another, so a run in which every thread is
\* treated fairly takes steps as long as some step is possible
NextFair ==
  \/ \E u \in Uploads : Submit(u)
  \/ \E id \in Uploads : Worker(id)

FairSpec ==
  /\ Init
  /\ [][NextFair]_vars
  /\ WF_vars(NextFair)

\* the first upload (a model with property rows, stored as a.ifc) has been
\* parsed and n requests were handled: none of them resolved the file yet
\* (cached = FALSE), or one resolved it and persisted the table (cached = TRUE)
TableA == extract_properties_from_ifc(FileA).df

StateAfterFirstUpload(cached, n) ==
  /\ disk = [f \in FileNames |-> IF f = "a.ifc" THEN FileA ELSE NoFile]
  /\ cache_files =
       LET exports == WriteFile(WriteFile(<<>>, CsvName(1), TableA), JsonName(1), TableA)
       IN  IF cached THEN WriteFile(exports, PklName(1), TableA) ELSE exports
  /\ parsing_status = [i \in {1} |->
        [status |-> "completed", original_filename |-> "a.ifc", saved_path |-> "a.ifc",
         result |-> <<RelPath(CsvName(1)), RelPath(JsonName(1))>>, error |-> None]]
  /\ uploaded_files_metadata = [i \in {1} |->
        IF cached
        THEN [NewFileInfo("a.ifc") EXCEPT !.processed_data_df = TableA,
                                          !.cached_df_path = PklName(1)]
        ELSE NewFileInfo("a.ifc")]
  /\ upc = [u \in Uploads |-> IF u = 1 THEN "returned" ELSE "new"]
  /\ uname = [u \in Uploads |-> IF u = 1 THEN "a.ifc" ELSE None]
  /\ wpc = [u \in Uploads |-> IF u = 1 THEN "done" ELSE "none"]
  /\ wres = [u \in Uploads |-> IF u = 1 THEN <<CsvName(1), JsonName(1)>> ELSE <<>>]
  /\ wexc = [u \in Uploads |-> None]
  /\ statusResp = [id |-> UnknownId, code |-> 0, body |-> <<>>]
  /\ cpc = [c \in Callers |-> "idle"]
  /\ call = [c \in Callers |-> NoCall]
  /\ ncalls = n
  /\ clog = [c \in Callers |->
               IF cached /\ c = 1
               THEN << <<"disk", FALSE>>, <<"mem", FALSE>>, <<"fresh", TRUE>> >> ELSE <<>>]
  /\ last = [u \in Uploads |-> IF cached /\ u = 1 THEN {TableA} ELSE {}]
  /\ pairs = {}
  /\ computed = [u \in Uploads |-> IF cached /\ u = 1 THEN TableA ELSE NoDF]
  /\ batch = NoBatch
  /\ graph = NoGraph
  /\ graphResp = [c \in DOMAIN cpc |-> NoGraphResp]
  /\ walk = NoWalk

\* the cache: uploads, workers and the data, chart and graph requests
CacheInit == StateAfterFirstUpload(FALSE, 0)

CacheNext ==
  \/ \E u \in Uploads : Submit(u)
  \/ \E id \in Uploads : Worker(id)
  \/ \E c \in Callers, kind \in CallKinds, fid \in Uploads \cup {UnknownId} : CallStart(c, kind, fid)
  \/ \E c \in Callers : Resolve(c)

CacheSpec == CacheInit /\ [][CacheNext]_vars

\* every operation together, one more request to come
OwnerInit == \E cached \in BOOLEAN : StateAfterFirstUpload(cached, MaxCalls - 1)

OwnerNext ==
  \/ \E u \in Uploads : Submit(u)
  \/ \E id \in Uploads : Worker(id)
  \/ \E fid \in Uploads \cup {UnknownId} : GetStatus(fid)
  \/ \E c \in Callers, kind \in CallKinds, fid \in Uploads \cup {UnknownId} : CallStart(c, kind, fid)
  \/ \E c \in Callers : Resolve(c)

OwnerSpec == OwnerInit /\ [][OwnerNext]_vars

\* one request of extract_data or generate_chart. Two files are registered:
\* id 2 (b.ifc, one property row) is completed and its table is persisted;
\* id 1 (a.ifc, three property rows) is completed and not resolved yet, with
\* its stored file unchanged, replaced by a model whose walk raises, or
\* replaced by an unreadable file of a rejected upload, or it is still pending
\* with its worker about to start.
TableB == extract_properties_from_ifc(FileB).df

StateBeforeBatch(m, pend) ==
    /\ disk = [f \in FileNames |-> IF f = "a.ifc" THEN m ELSE FileB]
    /\ cache_files =
         LET two == WriteFile(WriteFile(WriteFile(<<>>, CsvName(2), TableB),
                                        JsonName(2), TableB), PklName(2), TableB)
         IN  IF pend THEN two
             ELSE WriteFile(WriteFile(two, CsvName(1), TableA), JsonName(1), TableA)
    /\ parsing_status = [i \in Uploads |->
          IF i = 1 /\ pend THEN NewTask("a.ifc")
          ELSE [status |-> "completed",
                original_filename |-> IF i = 1 THEN "a.ifc" ELSE "b.ifc",
                saved_path |-> IF i = 1 THEN "a.ifc" ELSE "b.ifc",
                result |-> <<RelPath(CsvName(i)), RelPath(JsonName(i))>>, error |-> None]]
    /\ uploaded_files_metadata = [i \in Uploads |->
          IF i = 1 THEN NewFileInfo("a.ifc")
          ELSE [NewFileInfo("b.ifc") EXCEPT !.processed_data_df = TableB,
                                            !.cached_df_path = PklName(2)]]
    /\ upc = [u \in Uploads |-> "returned"]
    /\ uname = [u \in Uploads |-> IF u = 1 THEN "a.ifc" ELSE "b.ifc"]
    /\ wpc = [u \in Uploads |-> IF u = 1 /\ pend THEN "start" ELSE "done"]
    /\ wres = [u \in Uploads |-> IF u = 1 /\ pend THEN <<>> ELSE <<CsvName(u), JsonName(u)>>]
    /\ wexc = [u \in Uploads |-> None]
    /\ statusResp = [id |-> UnknownId, code |-> 0, body |-> <<>>]
    /\ cpc = [c \in Slots |-> "idle"]
    /\ call = [c \in Slots |-> NoCall]
    /\ ncalls = 0
    /\ clog = [c \in Slots |-> <<>>]
    /\ last = [u \in Uploads |-> IF u = 2 THEN {TableB} ELSE {}]
    /\ pairs = {}
    /\ computed = [u \in Uploads |-> IF u = 2 THEN TableB ELSE NoDF]
    /\ batch = NoBatch
    /\ graph = NoGraph
  /\ graphResp = [c \in DOMAIN cpc |-> NoGraphResp]
  /\ walk = NoWalk

\* the lists of at most MaxShort ids, known or not
MaxShort == 2
BatchLists == UNION {[1..n -> Uploads \cup {UnknownId}] : n \in 0..MaxShort}

BatchInit ==
  \E m \in {FileA, FileRaise, FileBad}, pend \in BOOLEAN :
    (pend => m = FileA) /\ StateBeforeBatch(m, pend)

BatchNext ==
  \/ \E kind \in BatchKinds, ids \in BatchLists : BatchRequest(kind, ids)
  \/ BatchSubmit
  \/ BatchSubmitted
  \/ \E k \in Slots : PoolStart(k)
  \/ \E c \in Slots : PoolRun(c)
  \/ \E plot \in PlotOutcomes : BatchCollect(plot)
  \/ BatchRespond
  \/ \E id \in Uploads : Worker(id)

BatchSpec == BatchInit /\ [][BatchNext]_vars

\* the pool of one request: lists of up to MaxBatch ids, the completed file
\* id 1, not resolved yet, followed by the completed and persisted file id 2
PoolLists == {[k \in 1..n |-> IF k = 1 THEN 1 ELSE 2] : n \in 1..MaxBatch}

PoolInit == StateBeforeBatch(FileA, FALSE)

PoolNext ==
  \/ \E kind \in BatchKinds, ids \in PoolLists : BatchRequest(kind, ids)
  \/ BatchSubmit
  \/ BatchSubmitted
  \/ \E k \in Slots : PoolStart(k)
  \/ \E c \in Slots : PoolRun(c)
  \/ \E plot \in PlotOutcomes : BatchCollect(plot)
  \/ BatchRespond

PoolSpec == PoolInit /\ [][PoolNext]_vars

\* requests of generate_graph, from the states a batch request starts in
RenderInit == BatchInit

RenderNext ==
  \/ \E c \in Callers, fid \in Uploads \cup {UnknownId} : GraphRequest(c, fid)
  \/ \E c \in Callers : PoolRun(c)
  \/ \E id \in Uploads : Worker(id)

RenderSpec == RenderInit /\ [][RenderNext]_vars

\* the worker of the first file is about to start on its stored file, which
\* is the submitted model, a model whose walk raises, or the unreadable file
\* a rejected upload left under the same name; the status, data, chart and
\* graph requests arrive at any time
RetryInit == \E m \in {FileA, FileRaise, FileBad} : StateBeforeBatch(m, TRUE)

RetryNext ==
  \/ \E id \in Uploads : Worker(id)
  \/ \E fid \in Uploads \cup {UnknownId} : GetStatus(fid)
  \/ \E c \in Callers, kind \in CallKinds, fid \in Uploads \cup {UnknownId} : CallStart(c, kind, fid)
  \/ \E c \in Callers : PoolRun(c)

RetrySpec == RetryInit /\ [][RetryNext]_vars

\* one run of the property extractor on a model
ExtractNext ==
  \/ \E m \in WalkModels : ExtractOpen(m)
  \/ ExtractInst
  \/ ExtractReturn

ExtractSpec == Init /\ [][ExtractNext]_vars

\* one run of the graph builder on a model
GraphNext ==
  \/ \E m \in GraphModels : GraphOpen(m)
  \/ GraphAddNode
  \/ GraphNodesDone
  \/ GraphAddEdge
  \/ GraphReturn

GraphSpec == Init /\ [][GraphNext]_vars

(* ---------------------------- properties ------------------------------- *)
Status(id) == parsing_status[id].status
Settled(id) == id \in DOMAIN parsing_status /\ Status(id) \in {"completed", "failed"}
BothLocations(id) == <<RelPath(CsvName(id)), RelPath(JsonName(id))>>

\* C1: the status of every task only ever moves pending -> processing ->
\* completed or failed; a task that is completed or failed never changes
\* status again, and a new task starts as pending.
C1_StatusTransitions ==
  [][\A id \in DOMAIN parsing_status' :
       IF id \in DOMAIN parsing_status
       THEN \/ Status(id)' = Status(id)
            \/ Status(id) = "pending" /\ Status(id)' = "processing"
            \/ Status(id) = "processing" /\ Status(id)' \in {"completed", "failed"}
       ELSE Status(id)' = "pending"]_vars

\* C2: once the worker of a file has finished, a completed task holds both
\* artifact locations and no error, a failed task holds no result and a
\* non-empty error message.
C2_FinishedTaskConsistent ==
  \A id \in DOMAIN parsing_status :
    wpc[id] = "done" =>
      /\ Status(id) \in {"completed", "failed"}
      /\ Status(id) = "completed" =>
           parsing_status[id].result = BothLocations(id) /\ parsing_status[id].error = None
      /\ Status(id) = "failed" =>
           parsing_status[id].result = <<>> /\ parsing_status[id].error \notin {None, ""}

C2_Witness ==
  /\ \E id \in DOMAIN parsing_status : wpc[id] = "done" /\ Status(id) = "completed"
  /\ \E id \in DOMAIN parsing_status :
       wpc[id] = "done" /\ Status(id) = "failed" /\ parsing_status[id].error = AttributeErrorMsg

\* C3: a response of the status endpoint never shows a partially written
\* task: completed only with both artifact locations, failed only with the
\* error message.
C3_StatusReadAtomic ==
  statusResp.code = 200 =>
    /\ statusResp.body[1].status = "completed" => Len(statusResp.body[1].result) = 2
    /\ statusResp.body[1].status = "failed" => statusResp.body[1].error # None

\* what the status endpoint reports for id: completed with two locations
ReportsCompleted(id) ==
  /\ StatusResponse(id).code = 200
  /\ StatusResponse(id).body[1].status = "completed"
  /\ StatusResponse(id).body[1].result = BothLocations(id)

\* C4: with fair scheduling every registered task eventually is completed or
\* failed, and a file whose parse wrote both artifacts eventually is reported
\* completed with its two locations.
C4_EventuallySettled ==
  \A id \in Uploads :
    /\ [](id \in DOMAIN parsing_status => <>Settled(id))
    /\ [](wres[id] # <<>> => <>ReportsCompleted(id))

\* the first half of C4 alone
EventuallyTerminal ==
  \A id \in Uploads : [](id \in DOMAIN parsing_status => <>Settled(id))

\* C5: the upload handler registers an accepted file under a fresh id, once
\* in each registry, as a pending task without result and error, starts the
\* worker of that id once, and its response does not wait for the worker.
C5_SubmitRegistersOnce ==
  [][\A u \in Uploads :
       /\ (upc[u] = "reg_task" /\ upc'[u] # "reg_task") =>
            /\ NewId(u) \notin DOMAIN parsing_status \cup DOMAIN uploaded_files_metadata
            /\ DOMAIN parsing_status' = DOMAIN parsing_status \cup {NewId(u)}
            /\ parsing_status'[NewId(u)].status = "pending"
            /\ parsing_status'[NewId(u)].result = <<>>
            /\ parsing_status'[NewId(u)].error = None
            /\ wpc[NewId(u)] = "none"
       /\ (upc[u] = "reg_meta" /\ upc'[u] # "reg_meta") =>
            /\ NewId(u) \notin DOMAIN uploaded_files_metadata
            /\ DOMAIN uploaded_files_metadata' = DOMAIN uploaded_files_metadata \cup {NewId(u)}
       /\ (upc[u] = "start_thread" /\ upc'[u] # "start_thread") =>
            /\ wpc[NewId(u)] = "none" /\ wpc'[NewId(u)] = "start"
            /\ \A j \in Uploads \ {NewId(u)} : wpc'[j] = wpc[j]
       /\ (wpc[u] # "start" /\ wpc'[u] = "start") => wpc[u] = "none"
       /\ upc[u] \in {"new", "rejected"} =>
            NewId(u) \notin DOMAIN parsing_status \cup DOMAIN uploaded_files_metadata
       /\ upc[u] = "respond" => ENABLED SubmitRespond(u)
       /\ (upc[u] = "respond" /\ upc'[u] = "returned") =>
            /\ Status(NewId(u)) \in {"pending", "processing", "completed", "failed"}
            /\ NewId(u) \in DOMAIN uploaded_files_metadata
            /\ wpc[NewId(u)] # "none"]_vars

\* the response was sent while the worker of the file had not even begun
C5_Witness ==
  \E u \in Uploads :
    /\ upc[u] = "returned" /\ wpc[NewId(u)] = "start"
    /\ Status(NewId(u)) = "pending"
    /\ NewId(u) \in DOMAIN uploaded_files_metadata

\* C6: in every state the two registries hold the same ids.
C6_RegistriesAgree == DOMAIN parsing_status = DOMAIN uploaded_files_metadata

\* C7: a step that produces a status response changes no task, no file
\* record and no stored file; an id without task gets NotFound, a registered
\* id gets its current task.
C7_GetStatusPure ==
  [][statusResp' # statusResp =>
       /\ UNCHANGED <<parsing_status, uploaded_files_metadata, cache_files, disk>>
       /\ statusResp'.code \in {200, 404}
       /\ statusResp'.code = 404 <=> statusResp'.id \notin DOMAIN parsing_status
       /\ statusResp'.code = 200 => statusResp'.body = <<parsing_status[statusResp'.id]>>]_vars

C7_Witness ==
  /\ statusResp.code = 200
  /\ statusResp.body[1].status = "failed"
  /\ statusResp.body[1].error = NoOutputMsg

\* C8: the status, result and error of a registered task change only in a
\* step of the worker of that file.
TaskFields(ps, id) == <<ps[id].status, ps[id].result, ps[id].error>>

C8_OnlyOwnWorkerWrites ==
  [][\A id \in DOMAIN parsing_status :
       TaskFields(parsing_status', id) # TaskFields(parsing_status, id) => Worker(id)]_vars

\* the worker of the second file has written its task while a request on the
\* first file is attaching a table and the status endpoint has answered
C8_Witness ==
  /\ 2 \in DOMAIN parsing_status
  /\ Status(2) = "completed"
  /\ parsing_status[2].result = BothLocations(2)
  /\ \E c \in Callers : cpc[c] = "r_pickle" /\ call[c].id = 1
  /\ statusResp.code = 200

\* C9: every call tries the tiers in the order persisted table, in-memory
\* table, fresh extraction, and goes on to the next tier only when all
\* earlier ones produced nothing.
TierOrder == <<"disk", "mem", "fresh">>

C9_TiersInOrder ==
  \A c \in Callers :
    /\ Len(clog[c]) <= Len(TierOrder)
    /\ \A i \in 1..Len(clog[c]) :
         /\ clog[c][i][1] = TierOrder[i]
         /\ i < Len(clog[c]) => ~clog[c][i][2]

\* one call was served by the persisted table, another by the in-memory table
\* after its persisted read failed: neither extracted
C9_Witness ==
  /\ clog[1] = << <<"disk", FALSE>>, <<"mem", TRUE>> >>
  /\ clog[2] = << <<"disk", TRUE>> >>

\* C10: two successive calls for the same id, with no replacement of the
\* stored model file from the start of the first to the return of the second,
\* return identical tables.
C10_SuccessiveCallsIdentical == \A p \in pairs : p[1] = p[2]

\* C11: a fresh extraction that yields zero rows is attached to the file
\* record and returned, and the call writes neither a cache file nor the
\* cached_df_path of the record; a fresh table with rows is attached and then
\* written to the cache folder as extracted. Every persisted table has rows.
Persisted(id) == Exists(PklName(id))

C11_EmptyNotPersisted ==
  /\ [](\A id \in Uploads : Persisted(id) => ~IsEmpty(cache_files[PklName(id)]))
  /\ [][\A c \in DOMAIN cpc :
          /\ (cpc[c] = "r_attach" /\ cpc'[c] # "r_attach") =>
               /\ uploaded_files_metadata'[call[c].id].processed_data_df = call[c].df
               /\ IF IsEmpty(call[c].df)
                  THEN /\ cpc'[c] = "idle"
                       /\ cache_files' = cache_files
                       /\ uploaded_files_metadata'[call[c].id].cached_df_path =
                            uploaded_files_metadata[call[c].id].cached_df_path
                       /\ ~call[c].tainted => call[c].df \in last'[call[c].id]
                  ELSE cpc'[c] = "r_pickle"
          /\ (cpc[c] = "r_pickle" /\ cpc'[c] = "r_setpath") =>
               /\ ~IsEmpty(call[c].df)
               /\ cache_files'[PklName(call[c].id)] = call[c].df]_vars

\* the stored file of id 1 has no property rows any more: the fresh table is
\* empty, attached, returned and not persisted
C11_Witness ==
  /\ 1 \in DOMAIN uploaded_files_metadata
  /\ uploaded_files_metadata[1].processed_data_df = EmptyDF
  /\ uploaded_files_metadata[1].cached_df_path = None
  /\ ~Persisted(1)
  /\ EmptyDF \in last[1]
  /\ disk["a.ifc"] = FileEmpty
  /\ \E c \in DOMAIN clog : clog[c] = << <<"disk", FALSE>>, <<"mem", FALSE>>, <<"fresh", TRUE>> >>

\* C12: whenever a persisted table exists for an id and no call for that id
\* is between its extraction and its return, the persisted table is the table
\* the extractor computed last for that id.
C12_PersistedIsLatest ==
  \A id \in Uploads :
    (Persisted(id) /\ \A c \in DOMAIN call : call[c].id # id) =>
       cache_files[PklName(id)] = computed[id]

\* C13: a call that cannot produce a table (the stored file is missing or the
\* extraction raises) never ends with an exception: it leaves the fresh tier
\* by returning the empty table, on a pool thread as on the request thread.
StoredFile(c) == disk[uploaded_files_metadata[call[c].id].saved_path]

C13_ResolveNeverRaises ==
  [][\A c \in DOMAIN cpc :
       (/\ cpc[c] = "r_extract" /\ cpc'[c] # "r_extract"
        /\ \/ ~StoredFile(c).present
           \/ extract_properties_from_ifc(StoredFile(c)).outcome = "raise")
       => cpc'[c] = "idle"]_vars

\* C14: a call leaves the persisted tier by returning the table it read or,
\* when there is none or the read failed, by going on to the in-memory tier
\* without having changed anything, and from there to the fresh extraction
\* when no table is attached; a call leaves the write of the persisted table
\* with the file written or, when the write failed, by returning the fresh
\* table, which stays attached, with cached_df_path and the cache folder as
\* they were.
Attached(id) == uploaded_files_metadata[id].processed_data_df

C14_PersistenceFailuresNotFatal ==
  [][\A c \in DOMAIN cpc :
       /\ (cpc[c] = "r_disk" /\ cpc'[c] # "r_disk") =>
            \/ cpc'[c] = "idle"
            \/ /\ cpc'[c] = "r_mem"
               /\ UNCHANGED <<uploaded_files_metadata, cache_files>>
       /\ (cpc[c] = "r_mem" /\ cpc'[c] # "r_mem") =>
            cpc'[c] = (IF Attached(call[c].id).isNone THEN "r_extract" ELSE "idle")
       /\ (cpc[c] = "r_pickle" /\ cpc'[c] # "r_pickle") =>
            \/ /\ cpc'[c] = "r_setpath"
               /\ cache_files'[PklName(call[c].id)] = call[c].df
            \/ /\ cpc'[c] = "idle"
               /\ UNCHANGED <<uploaded_files_metadata, cache_files>>
               /\ ~call[c].tainted => call[c].df \in last'[call[c].id]]_vars

\* the write of the persisted table failed: the table with rows was returned
\* and is attached, nothing is persisted; a later call whose persisted tier
\* had nothing was served by the attached table
C14_Witness ==
  /\ \A c \in DOMAIN cpc : cpc[c] = "idle"
  /\ ~Attached(1).isNone /\ ~IsEmpty(Attached(1))
  /\ uploaded_files_metadata[1].cached_df_path = None
  /\ ~Persisted(1)
  /\ Attached(1) \in last[1]
  /\ clog[1] = << <<"disk", FALSE>>, <<"mem", FALSE>>, <<"fresh", TRUE>> >>
  /\ clog[2] = << <<"disk", FALSE>>, <<"mem", TRUE>> >>

\* the request has been answered and its list was not empty
Answered == batch.pc = "done" /\ batch.ids # <<>>
\* future k returned a table with rows
Succeeded(k) == batch.res[k] # <<>> /\ ~IsEmpty(batch.res[k][1].df)

\* C15: a call is submitted only for a list position whose id was seen as
\* completed when the loop examined it, in list order; the other positions get
\* no call and no row, and the request is answered with success. A request
\* for the table of the completed id 1, whose file has its rows, and an
\* unknown id returns exactly the rows of id 1.
C15_OnlyCompletedRun ==
  /\ Len(batch.seen) = batch.i - 1
  /\ Len(batch.pos) = batch.nf
  /\ \A k \in 1..batch.nf :
       /\ batch.seen[batch.pos[k]] = "completed"
       /\ k > 1 => batch.pos[k - 1] < batch.pos[k]
       /\ batch.res[k] # <<>> => batch.res[k][1].id = batch.ids[batch.pos[k]]
       /\ cpc[k] \notin {"idle", "r_raised"} => call[k].id = batch.ids[batch.pos[k]]
  /\ \A p \in 1..Len(batch.seen) :
       batch.seen[p] # "completed" => p \notin Range(batch.pos)
  /\ Answered =>
       /\ batch.resp.code = 200
       /\ batch.kind = "extract" =>
            \A x \in 1..Len(batch.resp.data) :
              \E k \in 1..batch.nf :
                batch.resp.data[x].Source_Model =
                  uploaded_files_metadata[batch.ids[batch.pos[k]]].original_filename
       /\ (/\ batch.kind = "extract" /\ batch.ids = <<1, UnknownId>>
           /\ batch.seen[1] = "completed" /\ disk["a.ifc"] = FileA) =>
            batch.resp.data = AddSource(TableA.rows, "a.ifc")

\* the request over the completed id 1 and an unknown id was answered with
\* the three rows of id 1, the unknown id skipped
C15_Witness ==
  /\ Answered
  /\ batch.kind = "extract"
  /\ batch.ids = <<1, UnknownId>>
  /\ batch.seen = <<"completed", "unknown">>
  /\ batch.nf = 1
  /\ batch.resp.code = 200
  /\ batch.resp.data = AddSource(TableA.rows, "a.ifc")

RECURSIVE SumRows(_)
SumRows(k) ==
  IF k = 0 THEN 0
  ELSE SumRows(k - 1) + (IF Succeeded(k) THEN Len(batch.res[k][1].df.rows) ELSE 0)

\* C16: when a request with a list that is not empty is answered, every call
\* it submitted has ended, the answer is a success, and the answer of
\* extract_data holds the rows of every call that returned a table with rows,
\* and no other row, whatever the other calls did.
C16_SiblingsUnaffected ==
  Answered =>
    /\ batch.resp.code = 200
    /\ \A k \in 1..batch.nf : Ended(k)
    /\ batch.kind = "extract" =>
         /\ \A k \in 1..batch.nf :
              Succeeded(k) =>
                Range(AddSource(batch.res[k][1].df.rows, batch.res[k][1].name))
                  \subseteq Range(batch.resp.data)
         /\ Len(batch.resp.data) = SumRows(batch.nf)
         /\ batch.resp.count = Cardinality({k \in 1..batch.nf : Succeeded(k)})
    /\ batch.kind = "chart" =>
         /\ \A x \in 1..Len(batch.resp.data) :
              \E k \in 1..batch.nf :
                Succeeded(k) /\ batch.resp.data[x].file_id = batch.res[k][1].id
         /\ batch.resp.count = Len(batch.resp.data)

\* the call for id 1 ended with an exception, the call for id 2 returned its
\* row, and the answer holds that row
C16_Witness ==
  /\ Answered
  /\ batch.kind = "extract"
  /\ batch.ids = <<1, 2>>
  /\ cpc[1] = "r_raised"
  /\ Succeeded(2)
  /\ batch.resp.code = 200
  /\ batch.resp.data = AddSource(TableB.rows, "b.ifc")

\* C17: at no instant are more than min(5, n) calls of a request over n ids
\* being executed; a call beyond that number stays queued.
C17_PoolBounded ==
  batch.pc # "none" => Cardinality(Running) <= Min(PoolCap, Len(batch.ids))

\* five calls of a list of six are being executed and the sixth is queued
C17_Witness ==
  /\ Len(batch.ids) > PoolCap
  /\ Cardinality(Running) = PoolCap
  /\ \E k \in DOMAIN cpc : cpc[k] = "queued"

\* the rows position p of the list contributes: those of the table its call
\* returned, tagged with the display name of the file
Block(p) ==
  IF \E k \in 1..batch.nf : batch.pos[k] = p /\ Succeeded(k)
  THEN LET k == CHOOSE k \in 1..batch.nf : batch.pos[k] = p IN
       AddSource(batch.res[k][1].df.rows,
                 uploaded_files_metadata[batch.ids[p]].original_filename)
  ELSE <<>>

\* C18: the table extract_data answers with is the concatenation, in the
\* order of the list of ids, of the tables the calls returned, each with its
\* rows in their order and tagged with the display name of its file, in
\* whatever order the calls ended.
C18_InputOrder ==
  (Answered /\ batch.kind = "extract") =>
     batch.resp.data = Flatten([p \in 1..Len(batch.ids) |-> Block(p)])

\* the call for id 2, submitted second, ended first; the answer has the three
\* rows of id 1 before the row of id 2
C18_Witness ==
  /\ Answered
  /\ batch.kind = "extract"
  /\ batch.ids = <<1, 2>>
  /\ batch.early
  /\ batch.resp.data = AddSource(TableA.rows, "a.ifc") \o AddSource(TableB.rows, "b.ifc")

\* C19: every request of extract_data is answered with success, the empty
\* list included; the answer reports the number of files that contributed
\* rows and the number of rows, and without contributor it is an empty success.
C19_AlwaysSuccess ==
  (batch.pc = "done" /\ batch.kind = "extract") =>
     /\ batch.resp.code = 200
     /\ batch.resp.count = Cardinality({k \in 1..batch.nf : Succeeded(k)})
     /\ batch.resp.total = Len(batch.resp.data)
     /\ batch.resp.count = 0 => batch.resp.data = <<>>
     /\ batch.resp.count > 0 => batch.resp.reports

\* C20: in every state of a build, and so in the graph it returns, both ends
\* of every edge are nodes of the graph; the calls of add_relationship_edge
\* add no node, and a call whose source or target is no node adds no edge.
C20_EdgesBetweenNodes ==
  /\ [](\A ed \in DOMAIN graph.edges :
          has_node(graph.nodes, ed[1]) /\ has_node(graph.nodes, ed[2]))
  /\ [][(graph.pc = "edges" /\ graph'.r = graph.r + 1) =>
          /\ graph'.nodes = graph.nodes
          /\ (\/ ~has_node(graph.nodes, graph.cands[graph.r].src.gid)
              \/ ~has_node(graph.nodes, graph.cands[graph.r].tgt.gid))
             => graph'.edges = graph.edges]_vars

\* a returned graph with the edge wall -> storey, built from a model in which
\* relationships also name a product without identifier and an entity that
\* is no product
C20_Witness ==
  /\ graph.pc = "done"
  /\ DOMAIN graph.edges = {<<"w1", "s1">>}
  /\ \E x \in 1..Len(graph.cands) : graph.cands[x].src.gid = None
  /\ \E x \in 1..Len(graph.cands) : graph.cands[x].tgt.gid = "p1"
  /\ "p1" \notin DOMAIN graph.nodes

\* the instances of the model that carry a GlobalId that is not empty
Qualifying == {x \in 1..Len(graph.products) : graph.products[x].gid \notin {None, ""}}

\* C21: once the loop over the instances has ended, the graph has one node
\* for each instance with a GlobalId that is not empty, keyed by the GlobalId
\* and carrying the type and the Name of the instance, and no other node.
C21_NodePerInstance ==
  graph.pc \in {"edges", "done"} =>
    /\ DOMAIN graph.nodes = {graph.products[x].gid : x \in Qualifying}
    /\ Cardinality(DOMAIN graph.nodes) = Cardinality(Qualifying)
    /\ \A x \in Qualifying :
         graph.nodes[graph.products[x].gid] =
           [ifc_type |-> graph.products[x].type, name |-> graph.products[x].name]

\* the relationship record an edge came from, found by the step id the edge
\* carries
RecordOf(e) == CHOOSE rel \in Range(RelPool) : rel.id = graph.edges[e].ifc_rel_id
RelatedIds(rel) == {rel.related[y].gid : y \in 1..Len(rel.related)}

RuleLabel(t) ==
  CASE t = "IfcRelContainedInSpatialStructure" -> "is_contained_in"
    [] t = "IfcRelAggregates" -> "is_part_of"
    [] t = "IfcRelConnectsElements" -> "connects_to"
    [] t = "IfcRelVoidsElement" -> "voids_in_element"
    [] t = "IfcRelFillsElement" -> "fills_opening"

\* C23: every edge carries the type of the relationship record it came from
\* and the label of its rule; the graph returned for the model of one wall,
\* one storey and one containment relation (whose Name is None) has two
\* nodes and the one edge from the wall to the storey.
C23_EdgeTypeAndLabel ==
  /\ \A e \in DOMAIN graph.edges :
       /\ graph.edges[e].relation_type = RecordOf(e).is_a
       /\ graph.edges[e].relation_name = RuleLabel(RecordOf(e).is_a)
  /\ (/\ graph.pc = "done"
      /\ graph.products = <<Wall, Storey>>
      /\ Len(graph.cands) = 1
      /\ graph.cands[1].rel.id = 19)
       => /\ DOMAIN graph.nodes = {"w1", "s1"}
          /\ DOMAIN graph.edges = {<<"w1", "s1">>}

\* the calls of add_relationship_edge that relate the nodes u and v, in that
\* order, and the number of edges the graph holds from u to v
RecordsOn(u, v) ==
  {x \in 1..Len(graph.cands) :
     /\ graph.cands[x].src.hasGid /\ graph.cands[x].tgt.hasGid
     /\ graph.cands[x].src.gid = u /\ graph.cands[x].tgt.gid = v}
EdgesOn(u, v) == IF <<u, v>> \in DOMAIN graph.edges THEN 1 ELSE 0

\* C24: in the returned graph the number of edges from a node to a node is
\* the number of relationship records that relate the two in that order,
\* and the number of edges is the number of edges that were added.
C24_EdgePerRecord ==
  graph.pc = "done" =>
    /\ \A u \in DOMAIN graph.nodes : \A v \in DOMAIN graph.nodes :
         EdgesOn(u, v) = Cardinality(RecordsOn(u, v))
    /\ Cardinality(DOMAIN graph.edges) = graph.count

\* C25: for a model that was opened and has no instance with a GlobalId that
\* is not empty, build returns a graph without nodes and without edges and
\* the measured duration; when the model cannot be opened it returns None
\* and the duration 0.0, so the two results differ.
C25_EmptyGraphIsAResult ==
  /\ (graph.pc = "done" /\ Qualifying = {}) =>
        /\ graph.opened
        /\ ~graph.ret.isNone
        /\ DOMAIN graph.ret.nodes = {} /\ DOMAIN graph.ret.edges = {}
        /\ graph.ret.measured
  /\ graph.pc = "failed" =>
        /\ ~graph.opened
        /\ graph.ret.isNone /\ ~graph.ret.measured

\* a model of two instances, neither with a GlobalId, and a containment
\* relation that names one of them: the returned graph is empty
C25_Witness ==
  /\ graph.pc = "done"
  /\ Len(graph.products) = 2
  /\ Qualifying = {}
  /\ Len(graph.cands) > 0
  /\ ~graph.ret.isNone
  /\ DOMAIN graph.ret.nodes = {}

\* C26: a request of generate_graph for a file id that is unknown or whose
\* task is not completed is answered with an error, and a request for a
\* completed file whose resolved table has at least one row is answered with
\* a graph of at least one node.
C26_RenderGraph ==
  \A c \in Callers :
    graphResp[c].pc = "done" =>
      /\ ~graphResp[c].eligible => graphResp[c].code >= 400
      /\ (graphResp[c].eligible /\ graphResp[c].rows > 0) =>
           /\ graphResp[c].code = 200
           /\ graphResp[c].nodes # {}
           /\ graphResp[c].graph_path = GraphFileName(graphResp[c].id)

\* what the extractor returns for the stored file of a task, and the step in
\* which the worker of the task calls the parser
Extracted(id) == extract_properties_from_ifc(disk[parsing_status[id].saved_path])
ParseStep(id) == wpc[id] = "parse" /\ wpc'[id] # "parse"
BothWritten(id, df) ==
  /\ CsvName(id) \in DOMAIN cache_files' /\ cache_files'[CsvName(id)] = df
  /\ JsonName(id) \in DOMAIN cache_files' /\ cache_files'[JsonName(id)] = df

\* C27: the parser hands the worker the two paths exactly when the extractor
\* returned a table with at least one row and both exports were written, and
\* an exception exactly when the extractor raised; a worker that has ended
\* left its task completed exactly when it got the paths and no exception
\* was raised, and in every other case failed with an error message that is
\* not empty.
C27_CompletedIffArtifacts ==
  /\ [](\A id \in Uploads : wpc[id] = "done" =>
          /\ Status(id) = "completed" <=> (wres[id] # <<>> /\ wexc[id] = None)
          /\ Status(id) # "completed" =>
               /\ Status(id) = "failed"
               /\ parsing_status[id].error \notin {None, ""})
  /\ [][\A id \in Uploads : ParseStep(id) =>
          /\ wres'[id] # <<>> <=>
               /\ Extracted(id).outcome = "ok"
               /\ ~IsEmpty(Extracted(id).df)
               /\ BothWritten(id, Extracted(id).df)
          /\ wexc'[id] # None <=> Extracted(id).outcome = "raise"]_vars

\* the worker of the first file has ended and left it completed with both
\* exports stored; the worker of the second has ended and left it failed
\* because no export was produced
C27_Witness ==
  /\ wpc[1] = "done" /\ wpc[2] = "done"
  /\ Status(1) = "completed"
  /\ Exists(CsvName(1)) /\ Exists(JsonName(1))
  /\ Status(2) = "failed"
  /\ parsing_status[2].error = NoOutputMsg
  /\ ~Exists(CsvName(2)) /\ ~Exists(JsonName(2))

\* C28: for a file that cannot be opened the extractor does not raise,
\* walks no element, and returns a value that is not the empty table it
\* returns for a readable file without property rows.
C28_OpenFailureExplicit ==
  (walk.pc = "done" /\ ~walk.m.canOpen) =>
     /\ walk.ret.outcome # "raise"
     /\ walk.i = 1 /\ walk.rows = <<>>
     /\ ~(walk.ret.outcome = "ok" /\ walk.ret.df = EmptyDF)

\* the (element, property set, property) triples of a model, by position,
\* and their walk order
IsPsetRel(rel) == rel.kind = "IfcRelDefinesByProperties" /\ rel.def.kind = "IfcPropertySet"
Triples(m) ==
  UNION {UNION {{<<x, y, z>> : z \in 1..Len(m.elements[x].rels[y].def.props)} :
                  y \in {r \in 1..Len(m.elements[x].rels) : IsPsetRel(m.elements[x].rels[r])}} :
           x \in 1..Len(m.elements)}
Before(s, t) ==
  \/ s[1] < t[1]
  \/ s[1] = t[1] /\ s[2] < t[2]
  \/ s[1] = t[1] /\ s[2] = t[2] /\ s[3] < t[3]
Rank(m, t) == Cardinality({s \in Triples(m) : Before(s, t)}) + 1

\* C29: the table returned for a readable model has as many rows as the
\* model has (element, property set, property) triples, and the row at the
\* rank of a triple in walk order is the row of that element, set and
\* property; a model without such a triple yields the empty table; the
\* extraction raises only for a relation without property definition, never
\* for an element without property set.
C29_RowPerTriple ==
  (walk.pc = "done" /\ walk.m.canOpen) =>
    LET m == walk.m
        rows == walk.ret.df.rows
    IN  /\ walk.ret.outcome = "raise" =>
             \E x \in 1..Len(m.elements) : \E y \in 1..Len(m.elements[x].rels) :
                m.elements[x].rels[y].def.kind = None
        /\ walk.ret.outcome = "ok" =>
             /\ ~walk.ret.df.isNone
             /\ Len(rows) = Cardinality(Triples(m))
             /\ Triples(m) = {} => walk.ret.df = EmptyDF
             /\ \A t \in Triples(m) :
                  LET inst == m.elements[t[1]]
                      pdef == inst.rels[t[2]].def
                      row == rows[Rank(m, t)]
                  IN  /\ row.IFC_Entity = inst.type
                      /\ row.IFC_Name = inst.name
                      /\ row.IFC_GlobalId = inst.gid
                      /\ row.PropertySet = pdef.name
                      /\ row.PropertyName = pdef.props[t[3]].name

\* the table of a wall with one property set of two properties followed by
\* a wall without property set: two rows, both of the first wall
C29_Witness ==
  /\ walk.pc = "done"
  /\ walk.ret.outcome = "ok"
  /\ Len(walk.m.elements) = 2
  /\ walk.m.elements[2].rels = <<>>
  /\ Len(walk.ret.df.rows) = 2
  /\ walk.ret.df.rows[1].PropertyName = "IsExternal"
  /\ walk.ret.df.rows[2].PropertyName = "FireRating"

\* the names under which the artifacts of a file id are stored
ArtifactNames(id) == {CsvName(id), JsonName(id), PklName(id)}

\* C30: every file of the cache folder is the flat export, the structured
\* export or the persisted table of a registered file id, under the name
\* made from that id alone; the three names of an id differ, so the folder
\* holds at most one file of each kind per id, and the names of two distinct
\* ids are disjoint.
C30_OneArtifactPerId ==
  /\ \A n \in DOMAIN cache_files : \E id \in DOMAIN parsing_status : n \in ArtifactNames(id)
  /\ \A id \in DOMAIN parsing_status :
       /\ Cardinality(ArtifactNames(id)) = 3
       /\ Cardinality(DOMAIN cache_files \cap ArtifactNames(id)) <= 3
  /\ \A id \in DOMAIN parsing_status : \A other \in DOMAIN parsing_status :
       id # other => ArtifactNames(id) \cap ArtifactNames(other) = {}
  /\ Cardinality(DOMAIN cache_files) <= 3 * Cardinality(DOMAIN parsing_status)

\* two calls for the first file have both written its table and a second
\* file has its exports: the folder holds one persisted table and two
\* exports of the first file, and the two exports of the second
C30_Witness ==
  /\ cpc[1] = "r_setpath" /\ cpc[2] = "r_setpath"
  /\ call[1].id = 1 /\ call[2].id = 1
  /\ 2 \in DOMAIN parsing_status
  /\ DOMAIN cache_files = ArtifactNames(1) \cup {CsvName(2), JsonName(2)}

\* C31: a worker that finds the stored file unreadable takes the failure
\* branch without export paths and leaves the task failed; a failed task
\* stays failed and its worker, once ended, does not run again; and no
\* request ever runs process_single_ifc_file (and with it the extractor)
\* for a file whose worker got no export paths.
C31_FailedNeverRetried ==
  /\ [](\A id \in Uploads :
          (wpc[id] = "done" /\ wres[id] = <<>>) => Status(id) = "failed")
  /\ [](\A c \in Callers : cpc[c] # "idle" => wres[call[c].id] # <<>>)
  /\ [][\A id \in Uploads :
          /\ (ParseStep(id) /\ ~disk[parsing_status[id].saved_path].canOpen) =>
                wpc'[id] = "fail_status" /\ wres'[id] = <<>>
          /\ (id \in DOMAIN parsing_status /\ Status(id) = "failed") =>
                parsing_status'[id].status = "failed"
          /\ wpc[id] = "done" => wpc'[id] = "done"
          /\ (id \in DOMAIN parsing_status /\ Status(id) = "failed") =>
                \A c \in Callers : cpc[c] = "idle" /\ cpc'[c] # "idle" => call'[c].id # id]_vars

\* the first file was unreadable when its worker ran: the task is failed,
\* the status endpoint reported it, all three requests were handled and no
\* table was ever computed or stored for it
C31_Witness ==
  /\ ~disk["a.ifc"].canOpen
  /\ wpc[1] = "done"
  /\ Status(1) = "failed"
  /\ statusResp.id = 1 /\ statusResp.code = 200
  /\ statusResp.body[1].status = "failed"
  /\ ncalls = MaxCalls
  /\ \A c \in Callers : cpc[c] = "idle"
  /\ computed[1] = NoDF
  /\ ~Exists(PklName(1))

\* the persisted-table reference of a file record
CachedPath(id) == uploaded_files_metadata[id].cached_df_path

\* C32: a file record whose cached_df_path is set has a table attached, and
\* that table has rows; once set, neither the attached table nor the
\* cached_df_path of a record becomes None again.
C32_PathImpliesAttached ==
  /\ [](\A id \in DOMAIN uploaded_files_metadata :
          CachedPath(id) # None => ~Attached(id).isNone /\ ~IsEmpty(Attached(id)))
  /\ [][\A id \in DOMAIN uploaded_files_metadata :
          /\ ~Attached(id).isNone => ~uploaded_files_metadata'[id].processed_data_df.isNone
          /\ CachedPath(id) # None => uploaded_files_metadata'[id].cached_df_path # None]_vars

\* a call that is past a successful fresh extraction and has not returned
PastExtraction(c) == cpc[c] \in {"r_attach", "r_pickle", "r_setpath"}

\* C33: no two calls for the same file id are both past a fresh extraction
\* at the same time, and a call reaches the fresh extraction only while no
\* table was computed for its id before.
C33_ExtractOnce ==
  /\ \A c \in DOMAIN cpc : \A d \in DOMAIN cpc :
       (c # d /\ PastExtraction(c) /\ PastExtraction(d)) => call[c].id # call[d].id
  /\ \A c \in DOMAIN cpc :
       (cpc[c] = "r_extract" /\ StoredFile(c).present
          /\ extract_properties_from_ifc(StoredFile(c)).outcome = "ok")
         => computed[call[c].id] = NoDF

\* C34: a call whose fresh extraction fails (the stored file is missing or
\* the extractor raises) returns the empty table and leaves the file records
\* as they were; the table attached to a record changes only to the table a
\* call got from the extractor or read from the persisted file.
C34_FailedExtractionLeavesRecord ==
  [][/\ \A c \in DOMAIN cpc :
          (/\ cpc[c] = "r_extract" /\ cpc'[c] # "r_extract"
           /\ \/ ~StoredFile(c).present
              \/ extract_properties_from_ifc(StoredFile(c)).outcome = "raise")
          => /\ cpc'[c] = "idle"
             /\ ~call[c].tainted => EmptyDF \in last'[call[c].id]
             /\ uploaded_files_metadata' = uploaded_files_metadata
             /\ cache_files' = cache_files
     /\ \A id \in DOMAIN uploaded_files_metadata :
          uploaded_files_metadata'[id].processed_data_df # Attached(id) =>
            \E c \in DOMAIN cpc :
              /\ call[c].id = id
              /\ \/ /\ cpc[c] = "r_attach"
                    /\ uploaded_files_metadata'[id].processed_data_df = call[c].df
                 \/ /\ cpc[c] = "r_disk"
                    /\ call[c].cached # None /\ Exists(call[c].cached)
                    /\ uploaded_files_metadata'[id].processed_data_df = cache_files[call[c].cached]
    ]_vars

\* C35: no step of a worker changes a file record; a file whose task is
\* completed and for which no call has extracted a table yet has no table
\* attached and no cached_df_path; and a call for such a file that leaves
\* the in-memory tier goes on to the fresh extraction.
C35_WorkerLeavesCacheFields ==
  /\ [](\A id \in DOMAIN uploaded_files_metadata :
          (id \in DOMAIN parsing_status /\ Status(id) = "completed" /\ computed[id] = NoDF) =>
             Attached(id).isNone /\ CachedPath(id) = None)
  /\ [][/\ \A id \in DOMAIN parsing_status :
             (wpc'[id] # wpc[id] /\ wpc[id] # "none") =>
                uploaded_files_metadata' = uploaded_files_metadata
        /\ \A c \in DOMAIN cpc :
             (cpc[c] = "r_mem" /\ cpc'[c] # "r_mem" /\ computed[call[c].id] = NoDF) =>
                cpc'[c] = "r_extract"]_vars

\* the worker of the second file has ended with the task completed, and a
\* call for that file has extracted the model again and is about to attach
\* the table
C35_Witness ==
  /\ 2 \in DOMAIN parsing_status
  /\ wpc[2] = "done"
  /\ Status(2) = "completed"
  /\ \E c \in DOMAIN cpc :
       /\ cpc[c] = "r_attach" /\ call[c].id = 2
       /\ clog[c] = << <<"disk", FALSE>>, <<"mem", FALSE>>, <<"fresh", TRUE>> >>
  /\ Attached(2).isNone /\ CachedPath(2) = None

\* the stored model file of a registered file id
SavedPath(id) == uploaded_files_metadata[id].saved_path

\* C36: two registered file ids never have the same saved_path, and no step
\* changes the stored model file of a registered id.
C36_DistinctStoragePaths ==
  /\ [](\A id \in DOMAIN uploaded_files_metadata : \A other \in DOMAIN uploaded_files_metadata :
          id # other => SavedPath(id) # SavedPath(other))
  /\ [][\A id \in DOMAIN uploaded_files_metadata :
          disk'[SavedPath(id)] = disk[SavedPath(id)]]_vars

\* the calls of add_relationship_edge already made that added an edge from
\* u to v, and the last of them
AddedOn(u, v) ==
  {x \in RecordsOn(u, v) : x < graph.r /\ u \in DOMAIN graph.nodes /\ v \in DOMAIN graph.nodes}
LastOn(u, v) == CHOOSE x \in AddedOn(u, v) : \A y \in AddedOn(u, v) : y <= x
\* the place of the rule of a relationship type in the order containment,
\* aggregation, connection, void, fill
RuleRank(t) ==
  CASE t = "IfcRelContainedInSpatialStructure" -> 1
    [] t = "IfcRelAggregates" -> 2
    [] t = "IfcRelConnectsElements" -> 3
    [] t = "IfcRelVoidsElement" -> 4
    [] t = "IfcRelFillsElement" -> 5
\* the label a record brings: its Name, the label of its rule when it has no
\* such attribute
LabelOf(rel) == IF rel.hasName THEN rel.name ELSE RuleLabel(rel.is_a)

\* C37: while the edges are added and in the returned graph, the one edge
\* from a node to a node carries the type, the label and the record id of
\* the record that was processed last for that pair, in the order of the
\* rules and, within a rule, of the records; when several records were
\* processed for one pair the counter of added edges is greater than the
\* number of edges of the graph.
C37_MergedEdgeIsLastRecord ==
  graph.pc \in {"edges", "done"} =>
    /\ \A u \in DOMAIN graph.nodes : \A v \in DOMAIN graph.nodes :
         /\ <<u, v>> \in DOMAIN graph.edges <=> AddedOn(u, v) # {}
         /\ AddedOn(u, v) # {} =>
              LET rel == graph.cands[LastOn(u, v)].rel IN
                /\ graph.edges[<<u, v>>].relation_type = rel.is_a
                /\ graph.edges[<<u, v>>].relation_name = LabelOf(rel)
                /\ graph.edges[<<u, v>>].ifc_rel_id = rel.id
         /\ Cardinality(AddedOn(u, v)) > 1 => graph.count > Cardinality(DOMAIN graph.edges)
    /\ \A x \in 1..Len(graph.cands) : \A y \in 1..Len(graph.cands) :
         x < y => RuleRank(graph.cands[x].rel.is_a) <= RuleRank(graph.cands[y].rel.is_a)

\* the graph returned for the wall, the storey, the aggregation record 14 and
\* then the containment record 19: the one edge carries the aggregation,
\* which was processed last, and two edges were counted
C37_Witness ==
  /\ graph.pc = "done"
  /\ Len(graph.cands) >= 2
  /\ graph.cands[1].rel.id = 19 /\ graph.cands[2].rel.id = 14
  /\ DOMAIN graph.edges = {<<"w1", "s1">>}
  /\ graph.edges[<<"w1", "s1">>].ifc_rel_id = 14
  /\ graph.edges[<<"w1", "s1">>].relation_name = "agg"
  /\ graph.count = 2

\* the positions of the list that hold id, the futures submitted for them,
\* and the rows of the answer that position p of the list contributed
Occurrences(id) == {p \in 1..Len(batch.ids) : batch.ids[p] = id}
SubmittedFor(id) == {k \in 1..batch.nf : batch.pos[k] \in Occurrences(id)}
Offset(p) == Len(Flatten([q \in 1..(p - 1) |-> Block(q)]))
RowsAt(p) ==
  [x \in 1..Len(Block(p)) |->
     IF Offset(p) + x <= Len(batch.resp.data) THEN batch.resp.data[Offset(p) + x] ELSE <<>>]

\* C38: when the list of extract_data holds an id at m positions and the id
\* was completed at each of them, m calls are submitted for it, one per
\* position; all calls of the id that returned rows returned the same
\* table; the answer holds these rows, tagged with the display name of the
\* id, once at the place of every such position; and each such position
\* counts as one contributing file.
C38_RepeatedIdRepeatedRows ==
  (batch.kind = "extract" /\ batch.pc \in {"collect", "done"}) =>
     \A id \in Uploads :
       LET occ == Occurrences(id)
           ok == {k \in SubmittedFor(id) : Succeeded(k)} IN
         /\ (\A p \in occ : batch.seen[p] = "completed") =>
               /\ Cardinality(SubmittedFor(id)) = Cardinality(occ)
               /\ \A p \in occ : \E k \in 1..batch.nf : batch.pos[k] = p
         /\ \A k \in ok : \A d \in ok : batch.res[k][1].df = batch.res[d][1].df
         /\ Answered =>
               /\ \A k \in ok :
                    RowsAt(batch.pos[k]) =
                      AddSource(batch.res[k][1].df.rows,
                                uploaded_files_metadata[id].original_filename)
               /\ \A p \in occ : (~\E k \in ok : batch.pos[k] = p) => RowsAt(p) = <<>>
               /\ batch.resp.count =
                     Cardinality(ok) + Cardinality({k \in 1..batch.nf : Succeeded(k) /\ k \notin ok})
               /\ Len(batch.resp.data) = Offset(Len(batch.ids) + 1)

\* the list held the completed id 2 twice: two calls were submitted, the
\* answer holds the row of b.ifc twice and reports two files
C38_Witness ==
  /\ Answered
  /\ batch.kind = "extract"
  /\ batch.ids = <<2, 2>>
  /\ batch.nf = 2
  /\ batch.resp.data = AddSource(TableB.rows, "b.ifc") \o AddSource(TableB.rows, "b.ifc")
  /\ batch.resp.count = 2

\* the flat and the structured export of id are both stored, or neither is
BothExports(id) == Exists(CsvName(id)) /\ Exists(JsonName(id))
NoExport(id) == ~Exists(CsvName(id)) /\ ~Exists(JsonName(id))

\* C39: a parse step in which a write of an export failed leaves neither
\* export of the id stored and takes the worker to the failed branch; while
\* a task is failed neither export of its id is stored, and while it is
\* completed both are.
C39_FailedLeavesNoExport ==
  /\ [](\A id \in DOMAIN parsing_status :
          /\ Status(id) = "failed" => NoExport(id)
          /\ Status(id) = "completed" => BothExports(id))
  /\ [][\A id \in Uploads :
          (/\ ParseStep(id)
           /\ Extracted(id).outcome = "ok" /\ ~IsEmpty(Extracted(id).df)
           /\ wres'[id] = <<>>)
            => /\ CsvName(id) \notin DOMAIN cache_files'
               /\ JsonName(id) \notin DOMAIN cache_files'
               /\ wpc'[id] = "fail_status"]_vars

====
